---- MODULE Spec2Model ----
(***************************************************************************)
(* A model of syncmate: the file-move / append reconciler (woc.MoveFile),  *)
(* the sampled digest (SampleMD5), the receiver pipeline (cmd/recv.go) and *)
(* the sender pipeline (cmd/send.go).                                      *)
(*                                                                         *)
(* Files are sequences of bytes.  The 128-bit hash is modelled as an       *)
(* injective function of the bytes fed to it (MD5Hex16), so two digests    *)
(* are equal exactly when the same bytes were hashed.                      *)
(***************************************************************************)
EXTENDS Integers, Sequences, FiniteSets, TLC

VARIABLES
    mvSrc,      \* MoveFile harness: the file at srcPath
    mvDst,      \* MoveFile harness: the file at dstPath
    mvCall,     \* MoveFile harness: the arguments and the result of the call
    \* ---- the world shared by sender and receiver
    bucket,     \* object store: virtual name -> object (a file record)
    store,      \* task store: virtual name -> status of its record
    cache,      \* receiver cache directory: virtual name -> file
    dest,       \* receiver destination files: virtual name -> file at destPath
    \* ---- receiver process (cmd/recv.go)
    rcUseDB,        \* dbHandle != nil (no --skip-db)
    rcDeleteRemote, \* --delete-remote
    rcPc,           \* position of the receiver's main goroutine
    rcPlan,         \* keys of tasksMap
    rcExisting,     \* existingFiles: name -> listed size, -1 when not listed
    rcIgnored,      \* keys of ignoredFilesMap
    rcStartDel,     \* names the start-up delete loop has still to visit
    rcFileList,     \* fileList handed to the downloader
    rcPass,         \* which processDoneFiles call is running
    rcWork,         \* per file: step of its onFileTransferred goroutine
    rcDl,           \* downloader goroutine: "off", "running", "done"
    rcDlTodo,       \* names the downloader has still to transfer
    rcEnd,          \* how the last run ended
    \* ---- history of the receiver
    rcRuns,         \* number of receiver runs started
    rcPlaced,       \* per name: number of successful MoveFile calls
    rcDelIssued,    \* per name: number of bucket deletes issued
    rcDeleted,      \* per name: number of bucket deletes that removed it
    rcRunDel,       \* names a bucket delete was issued for in this run
    rcLingering,    \* names downloaded and still in the bucket at run start
    rcFailed,       \* some I/O operation of the receiver reported a failure
    \* ---- receiver: context, pass locals and per-file history
    rcCancelled,    \* ctx of runRecv has been cancelled
    rcLocal,        \* locals of the running processDoneFiles call
    rcMoveFailed,   \* names whose last MoveFile of this run returned an error
    rcPending,      \* names downloaded in this run and not yet submitted
    rcTry,          \* rclone.Run: number of the CopyFiles attempt, 0 when off
    rcErrored,      \* rclone.Run: the attempt has counted an error
    rcFaults,       \* failures and kills the receiver has met so far
    \* ---- sender process (cmd/send.go)
    sdUseDB,        \* dbHandle != nil (no --skip-db)
    sdMount,        \* the FUSE mount: "off", "mounting", "mounted", "failed"
    sdTry,          \* rclone.Run: number of the upload attempt, 0 when off
    sdErrored,      \* rclone.Run: the attempt has counted an error
    sdPc,           \* position of runSend and of its task goroutine
    sdPlan,         \* keys of tasksMap
    sdUpsertTodo,   \* names the "uploading" loop has still to visit
    sdUp,           \* uploader goroutine: "off", "running", "ok", "err"
    sdUpTodo,       \* names the uploader has still to copy
    sdMarkTodo,     \* names the "uploaded" loop has still to visit
    sdChecked,      \* the name whose iteration is past its ctx.Done check
    sdCancelled,    \* ctx has been cancelled by the signal goroutine
    sdEnd,          \* how the sender ended
    \* ---- history of the sender
    sdWroteUploading,   \* names written with status uploading in this run
    sdWroteUploaded,    \* names written with status uploaded in this run
    sdLate,             \* names written uploaded after the cancellation
    \* ---- planner harness (woc.GenerateFileLists)
    plIn,       \* the profiles, the source file and the option of the call
    plOut,      \* the outcome of the call
    \* ---- offset view file system (offsetfs.OffsetFS)
    vfCfg,      \* the FileConfig of the one configured name, and readOnly
    vfFile,     \* the file at config.SourcePath
    vfStamp,    \* the time stamps of that file: who set them last
    vfLast,     \* the last operation: its arguments and its result
    \* ---- one SampleMD5 call
    dgIn,       \* the file, skip and size of the call
    dgOut,      \* its result
    \* ---- two concurrent MoveFile calls on one destination
    lkDst,      \* the file at dstPath
    lkDst0,     \* the file at dstPath before the two calls
    lkHolder,   \* the call holding the exclusive flock on it, 0 when free
    lkCall,     \* per call: its arguments, its position and its result
    \* ---- the goroutines of one processDoneFiles call with many files
    pwNext,     \* number of files the file loop has started a goroutine for
    pwStage,    \* per file: where its goroutine is
    pwSem,      \* number of tokens in the semaphore channel
    \* ---- environment
    envFaults       \* whether I/O operations may fail

mvVars == <<mvSrc, mvDst, mvCall>>
worldVars == <<bucket, store, cache, dest>>
rcProcVars == <<rcUseDB, rcDeleteRemote, rcPc, rcPlan, rcExisting, rcIgnored,
                rcStartDel, rcFileList, rcPass, rcWork, rcDl, rcDlTodo, rcEnd>>
rcHistVars == <<rcRuns, rcPlaced, rcDelIssued, rcDeleted, rcRunDel,
                rcLingering, rcFailed>>
rcProcVarsButTodo == <<rcUseDB, rcDeleteRemote, rcPc, rcPlan, rcExisting,
                       rcIgnored, rcStartDel, rcFileList, rcPass, rcWork, rcDl,
                       rcEnd>>
rcCtxVars == <<rcCancelled, rcLocal, rcMoveFailed, rcPending>>
rcEnvVars == <<rcTry, rcErrored, rcFaults>>
rcVars == <<rcProcVars, rcHistVars, rcCtxVars, rcEnvVars>>

sdProcVars == <<sdUseDB, sdMount, sdPc, sdPlan, sdUpsertTodo, sdUp, sdUpTodo,
                sdMarkTodo, sdChecked, sdCancelled, sdEnd>>
sdHistVars == <<sdWroteUploading, sdWroteUploaded, sdLate>>
sdTryVars == <<sdTry, sdErrored>>
sdVars == <<sdProcVars, sdHistVars, sdTryVars>>

plVars == <<plIn, plOut>>

vfVars == <<vfCfg, vfFile, vfStamp, vfLast>>

dgVars == <<dgIn, dgOut>>

lkVars == <<lkDst, lkDst0, lkHolder, lkCall>>

pwVars == <<pwNext, pwStage, pwSem>>

vars == <<mvVars, worldVars, rcVars, sdVars, plVars, vfVars, dgVars,
          lkVars, pwVars, envFaults>>

----------------------------------------------------------------------------
(* Bounds *)

MaxLen == 2                 \* longest file content drawn as an input
MaxTries == 2                \* tries of rclone.Run explored (of Retries)
MaxFaults == 2               \* I/O failures and kills met by the receiver
MaxRuns == 2                \* receiver runs (start, crash, restart) explored
MaxOff == 3                 \* largest offset, size and buffer length of a view
MaxSrc == 4                 \* longest source file behind a view
MaxSkip == 2                \* largest skip of a digest call
PoolFiles == 11              \* cache files found by the pass of SpecPool
LongExtra == 2              \* bytes of a long file beyond SmallFileLimit + 1
Byte == {0, 1}              \* the byte values drawn for file contents

----------------------------------------------------------------------------
(* Generic helpers *)

Min(a, b) == IF a < b THEN a ELSE b

BytesUpTo(n) == UNION {[1..m -> Byte] : m \in 0..n}

----------------------------------------------------------------------------
(* Sampled digest: logic.SampleMD5 / woc.SampleMD5 *)

SmallFileLimit == 4096      \* "typical block size of ext4"
WindowLen == 128            \* bytes hashed per sampled window

NoDigest == <<>>            \* the empty string "" (no digest given)

\* fmt.Sprintf("%x", hasher.Sum(nil))[:16] of a hasher fed with `fed`
MD5Hex16(fed) == <<16>> \o fed

RECURSIVE bitLength(_)
bitLength(n) == IF n <= 0 THEN 0 ELSE 1 + bitLength(n \div 2)

\* file.Seek(off, SeekStart); file.Read(buffer) with len(buffer) = n
ReadAt(data, off, n) == SubSeq(data, off + 1, Min(off + n, Len(data)))

RECURSIVE FeedWindows(_, _, _, _)
FeedWindows(data, skip, chunkSize, i) ==
    IF i < 0 THEN <<>>
    ELSE FeedWindows(data, skip, chunkSize, i - 1)
            \o ReadAt(data, skip + i * chunkSize, WindowLen)

\* Mutant: the last window is taken at the end of the file
LastWindowAtFileEnd(skip, actualSize, fsize) == fsize - WindowLen

\* "Hash last 128 bytes": file.Seek(skip+actualSize-128, io.SeekStart)
LastWindow(skip, actualSize, fsize) == skip + actualSize - WindowLen

SampleMD5(data, skip, size) ==
    LET fsize == Len(data)
        actualSize == IF size <= 0 THEN fsize - skip ELSE size
        chunkSize == 2 ^ (bitLength(actualSize \div bitLength(actualSize)) + 2)
        numChunks == (actualSize - 256) \div chunkSize
    IN  IF skip + actualSize > fsize
        THEN [err |-> "range-out-of-bounds", size |-> 0, digest |-> NoDigest]
        ELSE IF actualSize < 0     \* make([]byte, actualSize) panics
        THEN [err |-> "panic", size |-> 0, digest |-> NoDigest]
        ELSE IF actualSize <= SmallFileLimit
        THEN [err |-> "", size |-> actualSize,
              digest |-> MD5Hex16(ReadAt(data, skip, actualSize))]
        ELSE [err |-> "", size |-> actualSize,
              digest |-> MD5Hex16(
                  FeedWindows(data, skip, chunkSize, numChunks)
                  \o ReadAt(data, LastWindow(skip, actualSize, fsize),
                            WindowLen))]

\* the inputs of one digest call: short files of any content, and long files
\* (sampled by windows) that are zero but at a few positions
NoDigestCall == [data |-> <<>>, skip |-> 0, size |-> 0]
NoDigestResult == [err |-> "none", size |-> 0, digest |-> NoDigest]

DigestIdle ==
    /\ dgIn = NoDigestCall
    /\ dgOut = NoDigestResult

LongLens == (SmallFileLimit + 1)..(SmallFileLimit + 1 + LongExtra)
FlipAt == {1, WindowLen + 1, SmallFileLimit \div 2 + 1, SmallFileLimit + 1,
           SmallFileLimit + 2}
LongData(n, flips) == [i \in 1..n |-> IF i \in flips THEN 1 ELSE 0]
DigestFiles ==
    BytesUpTo(MaxLen)
        \cup {LongData(n, fl) : n \in LongLens, fl \in SUBSET FlipAt}
DigestSizes == (-1)..MaxLen \cup {SmallFileLimit, SmallFileLimit + 1}


----------------------------------------------------------------------------
(* Files *)

NoFile == [exists |-> FALSE, regular |-> TRUE, data |-> <<>>]
RegFile(d) == [exists |-> TRUE, regular |-> TRUE, data |-> d]
DirFile == [exists |-> TRUE, regular |-> FALSE, data |-> <<>>]

FileSize(f) == Len(f.data)

----------------------------------------------------------------------------
(* woc.MoveFile *)

CopyModeOverwrite == 0
CopyModeAppend == 1

\* The I/O steps of MoveFile that can fail for reasons outside the program;
\* at most one of them fails in a call, since every failure returns.
Faults == {"none", "stat_src", "open_src", "digest_src", "open_lock", "flock",
           "open_dst", "stat_dst", "copy_err", "copy_short", "digest_dst",
           "truncate", "remove"}

\* os.OpenFile(dstPath, O_WRONLY|O_CREATE): creates an empty file if absent
OpenForLock(dst) == IF dst.exists THEN dst ELSE RegFile(<<>>)

\* os.OpenFile(dstPath, openFlags): O_TRUNC empties the file, O_APPEND keeps it
OpenForWrite(dst, mode) ==
    IF mode = CopyModeOverwrite THEN [dst EXCEPT !.data = <<>>] ELSE dst

\* bytes io.Copy reports as written
CopyWritten(src, fault, k) ==
    IF fault \in {"copy_err", "copy_short"} THEN Min(k, FileSize(src))
    ELSE FileSize(src)

\* the destination after io.Copy has written `written` bytes
CopyInto(dst, src, written) ==
    [dst EXCEPT !.data = @ \o SubSeq(src.data, 1, written)]

\* os.Truncate(dstPath, dstSize)
Truncate(dst, size) == [dst EXCEPT !.data = SubSeq(@, 1, Min(size, Len(@)))]

\* "4. Delete the source file": what is at srcPath after os.Remove succeeded
RemoveSource(src) == NoFile

\* Mutant: the source is unlinked right after the copy, before the digest
\* post-check
SourceOnErrorUnlinkedEarly(src, stage) ==
    IF stage = "digest-postcheck-failed" THEN NoFile ELSE src

\* The source file when MoveFile returns an error at `stage`: os.Remove is
\* the last statement, so every error return leaves it in place
SourceOnError(src, stage) == src

\* Mutant: the overwrite-mode digest pre-check is skipped
PreCheckDigestSkipped(src, mode, exp, fault) == ""

\* The overwrite-mode digest pre-check (filemove.go:45-53): "" when passed
PreCheckDigest(src, mode, exp, fault) ==
    IF mode = CopyModeOverwrite /\ exp # NoDigest
    THEN IF fault = "digest_src" \/ SampleMD5(src.data, 0, 0).err # ""
         THEN "io-error"
         ELSE IF SampleMD5(src.data, 0, 0).digest # exp
         THEN "digest-precheck-failed"
         ELSE ""
    ELSE ""

\* Mutant: the destination is opened for locking before the pre-check
DstAtPreCheckLocked(dst) == OpenForLock(dst)

\* The destination when the overwrite-mode digest pre-check fails
\* (filemove.go:45-53): the check runs before the lock file is opened at
\* line 55, so nothing has touched the destination
DstAtPreCheck(dst) == dst

\* Mutant: the append-mode size pre-check is skipped
PreCheckSizeSkipped(mode, expSize, dstSize) == ""

\* The append-mode size pre-check (filemove.go:90-94): "" when passed
PreCheckSize(mode, expSize, dstSize) ==
    IF mode = CopyModeAppend /\ expSize >= 0 /\ dstSize # expSize
    THEN "destination-size-precheck-failed"
    ELSE ""

\* Mutant: the error is returned without resizing the destination
RollbackSkipped(copied, dstSize, fault) == copied

\* The destination left by a failed append-mode digest post-check
\* (filemove.go:122-131): truncated back to dstSize unless os.Truncate fails
Rollback(copied, dstSize, fault) ==
    IF fault = "truncate" THEN copied ELSE Truncate(copied, dstSize)

MoveFile(src, dst, mode, exp, expSize, fault, k) ==
    LET fail(e, d) == [err |-> e, src |-> SourceOnError(src, e), dst |-> d]
        locked == OpenForLock(dst)
        opened == OpenForWrite(locked, mode)
        dstSize == FileSize(opened)
        written == CopyWritten(src, fault, k)
        copied == CopyInto(opened, src, written)
        post == SampleMD5(copied.data, 0, 0)
    IN  IF ~src.exists \/ fault = "stat_src" THEN fail("source-missing", dst)
        ELSE IF ~src.regular THEN fail("not-a-regular-file", dst)
        ELSE IF fault = "open_src" THEN fail("io-error", dst)
        ELSE IF PreCheckDigest(src, mode, exp, fault) # ""
        THEN fail(PreCheckDigest(src, mode, exp, fault), DstAtPreCheck(dst))
        ELSE IF fault = "open_lock" THEN fail("io-error", dst)
        ELSE IF fault = "flock" THEN fail("io-error", locked)
        ELSE IF mode \notin {CopyModeOverwrite, CopyModeAppend}
        THEN fail("invalid-mode", locked)
        ELSE IF fault = "open_dst" THEN fail("io-error", locked)
        ELSE IF fault = "stat_dst" THEN fail("io-error", opened)
        ELSE IF PreCheckSize(mode, expSize, dstSize) # ""
        THEN fail(PreCheckSize(mode, expSize, dstSize), opened)
        ELSE IF fault = "copy_err" THEN fail("io-error", copied)
        ELSE IF written # FileSize(src) THEN fail("io-error", copied)
        ELSE IF mode = CopyModeAppend /\ exp # NoDigest
                /\ (fault = "digest_dst" \/ post.err # "")
        THEN fail("io-error", copied)
        ELSE IF mode = CopyModeAppend /\ exp # NoDigest /\ post.digest # exp
        THEN fail(IF fault = "truncate" THEN "io-error"
                  ELSE "digest-postcheck-failed",
                  Rollback(copied, dstSize, fault))
        ELSE IF fault = "remove" THEN fail("io-error", copied)
        ELSE [err |-> "", src |-> RemoveSource(src), dst |-> copied]

\* The two MoveFile calls that run concurrently on one destination
Callers == {1, 2}

\* A MoveFile call that has not been entered
NotCalled == [pc |-> "returned", src |-> NoFile, src0 |-> NoFile,
              mode |-> CopyModeOverwrite, exp |-> NoDigest, expSize |-> -1,
              dstSize |-> 0, err |-> "", fault |-> "none"]

LockIdle ==
    /\ lkDst = NoFile
    /\ lkDst0 = NoFile
    /\ lkHolder = 0
    /\ lkCall = [p \in Callers |-> NotCalled]

\* processDoneFiles: "const maxConcurrency = 10"
maxConcurrency == 10

\* rclone.InjectGlobalConfig: "ci.Retries = 10"
Retries == 10

PoolIdle ==
    /\ pwNext = 0
    /\ pwStage = <<>>
    /\ pwSem = 0

----------------------------------------------------------------------------
(* The plan and the world of one transfer *)

\* A path or a name is text: a sequence of one-character strings.

\* the text ".offset." of fmt.Sprintf("%s.offset.%d", ...) in the planner
\* and of strings.Contains and strings.Split in the receiver
Marker == <<".", "o", "f", "f", "s", "e", "t", ".">>

DigitChars == <<"0", "1", "2", "3", "4", "5", "6", "7", "8", "9">>

\* strings.Index(s, sep): the first position, counted from 1, at which sep
\* occurs in s, 0 when it does not occur
Index(s, sep) ==
    LET hits == {i \in 1..(Len(s) - Len(sep) + 1) :
                    SubSeq(s, i, i + Len(sep) - 1) = sep}
    IN  IF hits = {} THEN 0
        ELSE CHOOSE i \in hits : \A j \in hits : i <= j

\* strings.Contains(s, sep)
Contains(s, sep) == Index(s, sep) # 0

\* strings.HasSuffix(s, suffix)
HasSuffix(s, suffix) ==
    /\ Len(s) >= Len(suffix)
    /\ SubSeq(s, Len(s) - Len(suffix) + 1, Len(s)) = suffix

\* parts[len(parts)-1] of parts := strings.Split(s, sep): Split cuts at the
\* occurrences of sep it finds from the left, one after the end of the
\* other, and the last part is what follows the last cut
RECURSIVE LastPart(_, _)
LastPart(s, sep) ==
    LET i == Index(s, sep)
    IN  IF i = 0 THEN s
        ELSE LastPart(SubSeq(s, i + Len(sep), Len(s)), sep)

\* the "%d" of fmt.Sprintf on an int64
RECURSIVE Decimal(_)
Decimal(k) ==
    IF k < 0 THEN <<"-">> \o Decimal(0 - k)
    ELSE IF k < 10 THEN <<DigitChars[k + 1]>>
    ELSE Decimal(k \div 10) \o <<DigitChars[(k % 10) + 1]>>

\* strconv.ParseInt(s, 10, 64): an optional sign and one or more decimal
\* digits, anything else is an error (the texts of the model are too short
\* for a value out of the range of int64)
ParseInt(s) ==
    LET signed == s # <<>> /\ s[1] \in {"+", "-"}
        digits == IF signed THEN Tail(s) ELSE s
        IsDigit(c) == \E d \in 1..10 : DigitChars[d] = c
        DigitValue(c) == (CHOOSE d \in 1..10 : DigitChars[d] = c) - 1
        RECURSIVE DecimalValue(_)
        DecimalValue(t) ==
            IF t = <<>> THEN 0
            ELSE 10 * DecimalValue(SubSeq(t, 1, Len(t) - 1))
                 + DigitValue(t[Len(t)])
    IN  IF digits = <<>> \/ \E i \in 1..Len(digits) : ~IsDigit(digits[i])
        THEN [err |-> TRUE, v |-> 0]
        ELSE [err |-> FALSE,
              v |-> IF signed /\ s[1] = "-" THEN 0 - DecimalValue(digits)
                    ELSE DecimalValue(digits)]

\* filepath.Base(path): the last element of the path, trailing slashes
\* removed; "." for the empty path and "/" for a path of slashes only
RECURSIVE Base(_)
Base(path) ==
    IF path = <<>> THEN <<".">>
    ELSE IF path = <<"/">> THEN <<"/">>
    ELSE IF path[Len(path)] = "/" THEN Base(SubSeq(path, 1, Len(path) - 1))
    ELSE LastPart(path, <<"/">>)

\* addPartialCopyTask: fmt.Sprintf("%s.offset.%d", base, dst size), the
\* virtual name of an append task; that of a full-copy task is the base name
VName(base, off) == base \o Marker \o Decimal(off)

\* filepath.Walk(cacheDir, ...): the path under which the walk reports the
\* cache file of a virtual name
CachePath(dir, name) == dir \o <<"/">> \o name

\* the --cache-dir of the receiver
CacheDir == <<"c">>

TaskA == <<"A">>            \* a full-copy task (woc.go addFullCopyTask)
TaskB == VName(<<"B">>, 1)  \* an append task  (woc.go addPartialCopyTask)
Foreign == <<"X">>          \* an object no task of the plan names

Names == {TaskA, TaskB}
AllNames == Names \cup {Foreign}

\* WocSyncTask.Offset, .Size, .SourceDigest and the bytes of the window
TaskOffset(n) == IF n = TaskB THEN 1 ELSE 0
WindowData(n) == <<1>>
TaskSize(n) == Len(WindowData(n))
DestBefore(n) == IF n = TaskB THEN RegFile(<<0>>) ELSE NoFile
SourceDigest(n) == MD5Hex16(DestBefore(n).data \o WindowData(n))

\* task store statuses (db.Status)
Uploading == "uploading"
Uploaded == "uploaded"
Downloaded == "downloaded"
Pending == "pending"
NoRecord == "none"          \* no row for the virtual path
\* a row stamped deleted_at (db.Task embeds gorm.Model): queries skip it,
\* the unique index on virtual_path still holds its place
Deleted == "deleted"

\* db.ListFinishedVirtualPaths
ListFinishedVirtualPaths == {n \in Names : store[n] = Downloaded}

WorldIdle ==
    /\ bucket = [n \in AllNames |-> NoFile]
    /\ store = [n \in Names |-> NoRecord]
    /\ cache = [n \in AllNames |-> NoFile]
    /\ dest = [n \in Names |-> DestBefore(n)]

AllIdle == [n \in Names |-> "idle"]
NoneListed == [n \in AllNames |-> -1]
ZeroCount == [n \in Names |-> 0]

RecvIdle ==
    /\ rcUseDB = TRUE
    /\ rcDeleteRemote = TRUE
    /\ rcPc = "stopped"
    /\ rcPlan = {}
    /\ rcExisting = NoneListed
    /\ rcIgnored = {}
    /\ rcStartDel = {}
    /\ rcFileList = {}
    /\ rcPass = "none"
    /\ rcWork = AllIdle
    /\ rcDl = "off"
    /\ rcDlTodo = {}
    /\ rcEnd = "none"
    /\ rcRuns = 0
    /\ rcPlaced = ZeroCount
    /\ rcDelIssued = ZeroCount
    /\ rcDeleted = ZeroCount
    /\ rcRunDel = {}
    /\ rcLingering = {}
    /\ rcFailed = FALSE
    /\ rcCancelled = FALSE
    /\ rcLocal = [empty |-> FALSE, broke |-> FALSE, errs |-> FALSE,
                 scanErr |-> FALSE, skipped |-> {}]
    /\ rcMoveFailed = {}
    /\ rcPending = {}
    /\ rcTry = 0
    /\ rcErrored = FALSE
    /\ rcFaults = 0

NoName == <<>>

SendIdle ==
    /\ sdUseDB = TRUE
    /\ sdPc = "stopped"
    /\ sdPlan = {}
    /\ sdUpsertTodo = {}
    /\ sdUp = "off"
    /\ sdUpTodo = {}
    /\ sdMarkTodo = {}
    /\ sdChecked = NoName
    /\ sdCancelled = FALSE
    /\ sdMount = "off"
    /\ sdTry = 0
    /\ sdErrored = FALSE
    /\ sdEnd = "none"
    /\ sdWroteUploading = {}
    /\ sdWroteUploaded = {}
    /\ sdLate = {}

----------------------------------------------------------------------------
(* The planner: woc.GenerateFileLists on one object with one shard *)

\* *int and *string fields of WocFile: nil or a value
NilSize == [nil |-> TRUE, v |-> 0]
SizeOf(x) == [nil |-> FALSE, v |-> x]
NilDigest == [nil |-> TRUE, v |-> <<>>]
DigestOf(d) == [nil |-> FALSE, v |-> d]


\* SampleMD5(path, skip, size) on a path: os.Open fails when the file is
\* missing
SampleMD5Path(file, skip, size) ==
    IF ~file.exists
    THEN [err |-> "not-exist", size |-> 0, digest |-> NoDigest]
    ELSE SampleMD5(file.data, skip, size)

\* the outcome of a planner step: a panic, or the tasks put in fileList
Panic == [panic |-> TRUE, tasks |-> {}]
Tasks(ts) == [panic |-> FALSE, tasks |-> ts]

\* calcDigests(file): TRUE when it panics.  The computed digest is stored in
\* the closure's copy of the WocFile and is lost when it returns.
calcDigests(f) ==
    \/ f.size.nil
    \/ f.digest.nil /\ SampleMD5Path(f.file, 0, 0).err # ""

\* addFullCopyTask(srcFile)
addFullCopyTask(src) ==
    IF src.size.nil THEN Panic
    ELSE IF src.digest.nil /\ calcDigests(src) THEN Panic
    ELSE Tasks({[name |-> Base(src.path),
                 offset |-> 0,
                 size |-> src.size.v,
                 sourceDigest |-> src.digest,
                 targetDigest |-> NilDigest]})

\* Mutant: the shard is planned as a full copy although its prefix matched
addPartialCopyTaskAsFull(src, dst) == addFullCopyTask(src)

\* addPartialCopyTask(srcFile, dstFile)
addPartialCopyTask(src, dst) ==
    IF src.size.nil \/ dst.size.nil THEN Panic
    ELSE IF src.size.v < dst.size.v THEN addFullCopyTask(src)
    ELSE IF src.digest.nil /\ calcDigests(src) THEN Panic
    ELSE IF src.digest.nil /\ dst.digest.nil /\ calcDigests(dst) THEN Panic
    ELSE Tasks({[name |-> VName(Base(src.path), dst.size.v),
                 offset |-> dst.size.v,
                 size |-> src.size.v - dst.size.v,
                 sourceDigest |-> src.digest,
                 targetDigest |-> dst.digest]})

\* Mutant: a panic of the second step returns what is in fileList by then
BothBestEffort(a, b) ==
    IF a.panic THEN Panic ELSE Tasks(a.tasks \cup b.tasks)

\* two steps of the shard loop in a row: a panic of either is a panic of
\* the call, otherwise both steps' tasks are in fileList
Both(a, b) ==
    IF a.panic \/ b.panic THEN Panic ELSE Tasks(a.tasks \cup b.tasks)

\* Mutant: a destination shard larger than the source is not singled out
DstAheadIgnored(dst, src) == FALSE

\* GenerateFileLists: "if *oldShard.Size > *shard.Size"
DstAhead(dst, src) == dst.size.v > src.size.v

\* Mutant: a digest mismatch does not stop the append task
OnPrefixDigestIgnored(p, d) == "partial"

\* GenerateFileLists: "if partialMd5.Digest != *oldShard.Digest" adds the
\* full copy and continues, otherwise the partial copy is added
OnPrefixDigest(p, d) == IF p # d THEN "full" ELSE "partial"

\* GenerateFileLists, the body of "for i, shard := range v.Shards" for a
\* source shard `src` and its destination shard `dst` (exists: the
\* destination profile has the object)
GenerateFileLists(exists, dst, src, skipPartDigestCheck) ==
    LET partialMd5 == SampleMD5Path(src.file, 0, dst.size.v)
    IN  IF ~exists THEN addFullCopyTask(src)
        ELSE IF dst.size.nil \/ src.size.nil THEN Panic
        ELSE IF DstAhead(dst, src) THEN addFullCopyTask(src)
        ELSE IF skipPartDigestCheck
        THEN Both(addFullCopyTask(src), addPartialCopyTask(src, dst))
        ELSE IF partialMd5.err # "" THEN Panic
        ELSE IF dst.digest.nil THEN Panic
        ELSE IF OnPrefixDigest(partialMd5.digest, dst.digest.v) = "full"
        THEN addFullCopyTask(src)
        ELSE addPartialCopyTask(src, dst)

NoPlan == [done |-> FALSE, panic |-> FALSE, tasks |-> {}]

NoPlanInput ==
    [exists |-> FALSE, skip |-> FALSE,
     src |-> [path |-> <<>>, file |-> NoFile, size |-> NilSize,
              digest |-> NilDigest],
     dst |-> [file |-> NoFile, size |-> NilSize, digest |-> NilDigest]]

PlanIdle ==
    /\ plIn = NoPlanInput
    /\ plOut = NoPlan

----------------------------------------------------------------------------
(* The offset view: offsetfs.OffsetFS.Getattr and OffsetFS.Read *)

\* the paths asked for: the root, the configured name, a name not configured
VfsPaths == {"/", "/f", "/g"}

\* getFileConfig: the leading slash is trimmed and the name looked up
Configured(path) == path = "/f"

\* I/O operations of the view that can fail for outside reasons
VfsFaults == {"none", "stat", "open", "read"}

\* the same for Write and Utimens
VfsWriteFaults == {"none", "stat", "open", "write", "chtimes"}

\* the access modes of an open: O_RDONLY, O_WRONLY, O_RDWR
OpenFlags == {"rdonly", "wronly", "rdwr"}

NoOp == [op |-> "none", path |-> "/", ofst |-> 0, len |-> 0,
         fault |-> "none", errno |-> "", size |-> 0, data |-> <<>>]

VfsIdle ==
    /\ vfCfg = [offset |-> 0, size |-> 0, readOnly |-> TRUE]
    /\ vfFile = NoFile
    /\ vfStamp = "orig"
    /\ vfLast = NoOp

\* Mutant: the bytes before the offset are not taken off
AvailableSizeUnclamped(fsize, offset) == fsize - offset

\* Getattr: availableSize, the bytes of the source from the offset on
AvailableSize(fsize, offset) == IF fsize > offset THEN fsize - offset ELSE 0

\* Getattr: "计算实际大小", stat.Size for an existing source file
StatSize(cfg, fsize) ==
    IF cfg.offset = 0 /\ cfg.size = 0 THEN fsize
    ELSE IF cfg.size = 0
    THEN IF cfg.offset >= fsize THEN 0 ELSE fsize - cfg.offset
    ELSE IF cfg.offset = 0
    THEN IF fsize < cfg.size THEN fsize ELSE cfg.size
    ELSE IF AvailableSize(fsize, cfg.offset) < cfg.size
    THEN AvailableSize(fsize, cfg.offset)
    ELSE cfg.size

\* OffsetFS.Getattr: errno and stat.Size
Getattr(path, fault) ==
    IF path = "/" THEN [errno |-> "", size |-> 0]
    ELSE IF ~Configured(path) THEN [errno |-> "ENOENT", size |-> 0]
    ELSE IF ~vfFile.exists THEN [errno |-> "", size |-> 0]
    ELSE IF fault = "stat" THEN [errno |-> "EIO", size |-> 0]
    ELSE [errno |-> "", size |-> StatSize(vfCfg, FileSize(vfFile))]

\* Mutant: the window is counted from the start at every read
RemainingFromStart(size, ofst) == size

\* Read: remaining, the bytes of the window from the relative offset on
Remaining(size, ofst) == size - ofst

\* OffsetFS.Read: errno, the number of bytes read and the bytes put in buff
Read(path, len, ofst, fault) ==
    LET fsize == FileSize(vfFile)
        direct == vfCfg.offset = 0 /\ vfCfg.size = 0
        actualOffset == IF direct THEN ofst ELSE vfCfg.offset + ofst
        maxReadSize == IF ~direct /\ vfCfg.size > 0
                       THEN Min(len, Remaining(vfCfg.size, ofst))
                       ELSE len
        clipped == IF actualOffset + maxReadSize > fsize
                   THEN fsize - actualOffset ELSE maxReadSize
        got == ReadAt(vfFile.data, actualOffset, clipped)
        ret(e, d) == [errno |-> e, size |-> Len(d), data |-> d]
    IN  IF ~Configured(path) THEN ret("ENOENT", <<>>)
        ELSE IF ~vfFile.exists \/ fault = "open" THEN ret("EIO", <<>>)
        ELSE IF ~direct /\ vfCfg.size > 0 /\ Remaining(vfCfg.size, ofst) <= 0
        THEN ret("", <<>>)
        ELSE IF fault = "stat" THEN ret("EIO", <<>>)
        ELSE IF actualOffset >= fsize THEN ret("", <<>>)
        ELSE IF fault = "read" THEN ret("EIO", <<>>)
        ELSE ret("", got)

\* OffsetFS.Open: errno
Open(path, flags, fault) ==
    IF ~Configured(path) THEN "ENOENT"
    ELSE IF ~vfFile.exists /\ vfCfg.readOnly THEN "ENOENT"
    ELSE IF vfFile.exists /\ fault = "stat" THEN "EIO"
    ELSE IF vfCfg.readOnly /\ flags \in {"wronly", "rdwr"} THEN "EACCES"
    ELSE ""

\* Mutant: a read-only mount does not refuse the write
RefusedNever(readOnly) == FALSE

\* Write, Utimens: "检查是否为只读模式", the read-only test
Refused(readOnly) == readOnly

\* os.File.Truncate to a longer length, then WriteAt: the gap is zero bytes
RECURSIVE Zeros(_)
Zeros(n) == IF n <= 0 THEN <<>> ELSE <<0>> \o Zeros(n - 1)

WriteAt(old, data, off) ==
    LET padded == old \o Zeros(off - Len(old))
    IN  SubSeq(padded, 1, off) \o data
            \o SubSeq(padded, off + Len(data) + 1, Len(padded))

\* OffsetFS.Write: errno, the number of bytes written, the source file and
\* its time stamps afterwards
Write(path, buff, ofst, fault) ==
    LET direct == vfCfg.offset = 0 /\ vfCfg.size = 0
        actualOffset == IF direct THEN ofst ELSE vfCfg.offset + ofst
        limited == ~direct /\ vfCfg.size > 0
                      /\ ofst + Len(buff) > vfCfg.size
        allowedSize == vfCfg.size - ofst
        data == IF limited THEN SubSeq(buff, 1, allowedSize) ELSE buff
        opened == IF vfFile.exists THEN vfFile ELSE RegFile(<<>>)
        openedStamp == IF vfFile.exists THEN vfStamp ELSE "now"
        extended == IF actualOffset + Len(data) > FileSize(opened)
                    THEN RegFile(opened.data
                            \o Zeros(actualOffset + Len(data) - FileSize(opened)))
                    ELSE opened
        extStamp == IF extended = opened THEN openedStamp ELSE "now"
        ret(e, n, f, t) == [errno |-> e, size |-> n, file |-> f, stamp |-> t]
    IN  IF ~Configured(path) THEN ret("ENOENT", 0, vfFile, vfStamp)
        ELSE IF Refused(vfCfg.readOnly) THEN ret("EACCES", 0, vfFile, vfStamp)
        ELSE IF fault = "open" THEN ret("EIO", 0, vfFile, vfStamp)
        ELSE IF limited /\ allowedSize <= 0
        THEN ret("ENOSPC", 0, opened, openedStamp)
        ELSE IF fault = "stat" THEN ret("EIO", 0, opened, openedStamp)
        ELSE IF fault = "write" THEN ret("EIO", 0, extended, extStamp)
        ELSE ret("", Len(data),
                 RegFile(WriteAt(opened.data, data, actualOffset)),
                 IF Len(data) = 0 THEN extStamp ELSE "now")

\* OffsetFS.Truncate: errno
FsTruncate(path) ==
    IF ~Configured(path) THEN "ENOENT"
    ELSE IF vfCfg.readOnly THEN "EACCES"
    ELSE "EACCES"

\* OffsetFS.Utimens: errno and the time stamps of the source file afterwards
Utimens(path, ntimes, fault) ==
    IF ~Configured(path) THEN [errno |-> "ENOENT", stamp |-> vfStamp]
    ELSE IF Refused(vfCfg.readOnly) THEN [errno |-> "EACCES", stamp |-> vfStamp]
    ELSE IF ntimes < 2 THEN [errno |-> "", stamp |-> vfStamp]
    ELSE IF ~vfFile.exists \/ fault = "chtimes"
    THEN [errno |-> "EIO", stamp |-> vfStamp]
    ELSE [errno |-> "", stamp |-> "set"]

\* Specification SpecPlan: one GenerateFileLists call on a source shard and
\* a destination shard drawn from small profiles and files
PlanSizes == {NilSize} \cup {SizeOf(n) : n \in 0..MaxLen}
PlanDigests == {NilDigest} \cup {DigestOf(MD5Hex16(d)) : d \in BytesUpTo(MaxLen)}
PlanSrcFiles == {NoFile} \cup {RegFile(d) : d \in BytesUpTo(MaxLen)}

\* srcFile.Path of the shard: a plain name, names that hold the marker or
\* end in the marker's first seven characters, a directory that holds it
ShardPaths ==
    {<<"d", "/", "S">>,
     <<"d", "/", "S">> \o Marker \o <<"7">>,
     <<"d", "/", "S", ".", "o", "f", "f", "s", "e", "t">>,
     <<"d">> \o Marker \o <<"1", "/", "S">>}

PlanInputs ==
    {[exists |-> e, skip |-> k,
      src |-> [path |-> sp, file |-> sf, size |-> ss,
               digest |-> IF sdNil THEN NilDigest
                          ELSE DigestOf(MD5Hex16(sf.data))],
      dst |-> [file |-> df, size |-> ds, digest |-> dd]] :
        e \in BOOLEAN, k \in BOOLEAN, sp \in ShardPaths,
        sf \in PlanSrcFiles, ss \in PlanSizes,
        sdNil \in BOOLEAN,
        df \in {NoFile, RegFile(<<>>)}, ds \in PlanSizes,
        dd \in PlanDigests}

----------------------------------------------------------------------------
(* Specification SpecMove: one MoveFile call on arbitrary small files *)

SrcFiles == {NoFile, DirFile} \cup {RegFile(d) : d \in BytesUpTo(MaxLen)}
DstFiles == {NoFile} \cup {RegFile(d) : d \in BytesUpTo(MaxLen)}

\* Expected digests worth drawing for a call on (src, dst): none, the right
\* one for each mode, and wrong ones
ExpectedDigests(src, dst) ==
    {NoDigest, MD5Hex16(src.data), MD5Hex16(dst.data \o src.data),
     MD5Hex16(dst.data), MD5Hex16(src.data \o dst.data)}

NoCall == [done |-> FALSE, err |-> "", mode |-> CopyModeOverwrite,
           exp |-> NoDigest, expSize |-> -1, fault |-> "none",
           preSrc |-> NoFile, preDst |-> NoFile]

InitMove ==
    /\ mvSrc \in SrcFiles
    /\ mvDst \in DstFiles
    /\ mvCall = NoCall
    /\ WorldIdle
    /\ RecvIdle
    /\ SendIdle
    /\ PlanIdle
    /\ VfsIdle
    /\ DigestIdle
    /\ LockIdle
    /\ PoolIdle
    /\ envFaults = TRUE

CallMoveFile ==
    /\ ~mvCall.done
    /\ \E mode \in {CopyModeOverwrite, CopyModeAppend},
          exp \in ExpectedDigests(mvSrc, mvDst),
          expSize \in -1..MaxLen,
          fault \in Faults,
          k \in 0..MaxLen :
        /\ (fault \notin {"copy_err", "copy_short"} => k = 0)
        /\ LET r == MoveFile(mvSrc, mvDst, mode, exp, expSize, fault, k)
           IN  /\ mvSrc' = r.src
               /\ mvDst' = r.dst
               /\ mvCall' = [done |-> TRUE, err |-> r.err, mode |-> mode,
                             exp |-> exp, expSize |-> expSize,
                             fault |-> fault,
                             preSrc |-> mvSrc, preDst |-> mvDst]
    /\ UNCHANGED <<worldVars, rcVars, sdVars, plVars, vfVars, dgVars, lkVars, pwVars, envFaults>>

NextMove == CallMoveFile

SpecMove == InitMove /\ [][NextMove]_vars

----------------------------------------------------------------------------
(* Specification SpecLock: two MoveFile calls on one destination, statement
   by statement *)

LockSrcFiles == {NoFile, RegFile(<<1>>), RegFile(<<1, 0>>)}
LockDstFiles == {NoFile, RegFile(<<0>>)}
LockDigests == {NoDigest, SampleMD5(<<1>>, 0, 0).digest,
                SampleMD5(<<0, 1>>, 0, 0).digest}

\* The statements of MoveFile that run between syscall.Flock(LOCK_EX) and the
\* deferred syscall.Flock(LOCK_UN)
UnderLock == {"open_dst", "size_check", "copy", "digest_check", "rollback",
              "remove"}

InitLock ==
    /\ mvSrc = NoFile /\ mvDst = NoFile /\ mvCall = NoCall
    /\ WorldIdle
    /\ RecvIdle
    /\ SendIdle
    /\ PlanIdle
    /\ VfsIdle
    /\ DigestIdle
    /\ PoolIdle
    /\ lkDst \in LockDstFiles
    /\ lkDst0 = lkDst
    /\ lkHolder = 0
    /\ lkCall \in [Callers ->
                     {[pc |-> "entered", src |-> f, src0 |-> f, mode |-> m,
                       exp |-> e, expSize |-> z, dstSize |-> 0, err |-> "",
                       fault |-> "none"] :
                         f \in LockSrcFiles,
                         m \in {CopyModeOverwrite, CopyModeAppend},
                         e \in LockDigests,
                         z \in {-1, 1}}]
    /\ envFaults = TRUE

\* the deferred syscall.Flock(LOCK_UN) and lockFile.Close() of a return
Unlock(p) == IF lkHolder = p THEN 0 ELSE lkHolder

\* a return of call p with error e; the deferred calls run only when the
\* lock file had been opened
LockReturn(p, e) ==
    /\ lkCall' = [lkCall EXCEPT ![p].pc = "returned", ![p].err = e]
    /\ lkHolder' = Unlock(p)

LockGoto(p, pc) == lkCall' = [lkCall EXCEPT ![p].pc = pc]

\* "1. Check before copying": os.Stat, os.Open and, in overwrite mode, the
\* digest of the source
LockPreCheck(p) ==
    LET c == lkCall[p]
        e == PreCheckDigest(c.src, c.mode, c.exp, "none")
    IN  /\ c.pc = "entered"
        /\ IF ~c.src.exists THEN LockReturn(p, "source-missing")
           ELSE IF ~c.src.regular THEN LockReturn(p, "not-a-regular-file")
           ELSE IF e # "" THEN LockReturn(p, e)
           ELSE LockGoto(p, "open_lock") /\ UNCHANGED lkHolder
        /\ UNCHANGED <<lkDst, lkDst0, mvVars, worldVars, rcVars, sdVars,
                       plVars, vfVars, dgVars, pwVars, envFaults>>

\* lockFile, err := os.OpenFile(dstPath, os.O_WRONLY|os.O_CREATE, 0666)
LockOpenFile(p) ==
    /\ lkCall[p].pc = "open_lock"
    /\ lkDst' = OpenForLock(lkDst)
    /\ LockGoto(p, "flock")
    /\ UNCHANGED <<lkDst0, lkHolder, mvVars, worldVars, rcVars, sdVars,
                   plVars, vfVars, dgVars, pwVars, envFaults>>

\* Mutant: the lock is shared, every caller is granted it at once
FlockGrantedShared(holder) == TRUE

\* syscall.Flock(fd, LOCK_EX) blocks while another open file description
\* holds a lock on the file
FlockGranted(holder) == holder = 0

LockFlock(p) ==
    /\ lkCall[p].pc = "flock"
    /\ FlockGranted(lkHolder)
    /\ lkHolder' = p
    /\ LockGoto(p, "open_dst")
    /\ UNCHANGED <<lkDst, lkDst0, mvVars, worldVars, rcVars, sdVars,
                   plVars, vfVars, dgVars, pwVars, envFaults>>

\* syscall.Flock returns an error: "unable to lock destination file"
LockFlockFails(p) ==
    /\ lkCall[p].pc = "flock"
    /\ envFaults
    /\ lkCall' = [lkCall EXCEPT ![p].pc = "returned", ![p].err = "io-error",
                                ![p].fault = "flock"]
    /\ UNCHANGED <<lkDst, lkDst0, lkHolder, mvVars, worldVars, rcVars,
                   sdVars, plVars, vfVars, dgVars, pwVars, envFaults>>

\* dstFile, err := os.OpenFile(dstPath, openFlags, srcStat.Mode())
LockOpenDst(p) ==
    /\ lkCall[p].pc = "open_dst"
    /\ lkDst' = OpenForWrite(lkDst, lkCall[p].mode)
    /\ LockGoto(p, "size_check")
    /\ UNCHANGED <<lkDst0, lkHolder, mvVars, worldVars, rcVars, sdVars,
                   plVars, vfVars, dgVars, pwVars, envFaults>>

\* dstSize := dstStat.Size() and "append: check size"
LockSizeCheck(p) ==
    LET c == lkCall[p]
        e == PreCheckSize(c.mode, c.expSize, FileSize(lkDst))
    IN  /\ c.pc = "size_check"
        /\ IF e # ""
           THEN /\ lkCall' = [lkCall EXCEPT ![p].pc = "returned",
                                            ![p].err = e,
                                            ![p].dstSize = FileSize(lkDst)]
                /\ lkHolder' = Unlock(p)
           ELSE /\ lkCall' = [lkCall EXCEPT ![p].pc = "copy",
                                            ![p].dstSize = FileSize(lkDst)]
                /\ UNCHANGED lkHolder
        /\ UNCHANGED <<lkDst, lkDst0, mvVars, worldVars, rcVars, sdVars,
                       plVars, vfVars, dgVars, pwVars, envFaults>>

\* What io.Copy leaves at dstPath: an O_APPEND descriptor writes at the end
\* of the file, the O_TRUNC descriptor at its own position, which is 0
CopyThrough(dst, src, mode) ==
    IF mode = CopyModeAppend THEN CopyInto(dst, src, FileSize(src))
    ELSE [dst EXCEPT !.data =
              src.data \o SubSeq(@, FileSize(src) + 1, Len(@))]

\* "2. Do copy"
LockCopy(p) ==
    /\ lkCall[p].pc = "copy"
    /\ lkDst' = CopyThrough(lkDst, lkCall[p].src, lkCall[p].mode)
    /\ LockGoto(p, "digest_check")
    /\ UNCHANGED <<lkDst0, lkHolder, mvVars, worldVars, rcVars, sdVars,
                   plVars, vfVars, dgVars, pwVars, envFaults>>

\* "3. Check after copying"
LockDigestCheck(p) ==
    LET c == lkCall[p]
    IN  /\ c.pc = "digest_check"
        /\ IF /\ c.mode = CopyModeAppend
              /\ c.exp # NoDigest
              /\ SampleMD5(lkDst.data, 0, 0).digest # c.exp
           THEN LockGoto(p, "rollback")
           ELSE LockGoto(p, "remove")
        /\ UNCHANGED <<lkDst, lkDst0, lkHolder, mvVars, worldVars, rcVars,
                       sdVars, plVars, vfVars, dgVars, pwVars, envFaults>>

\* "shit, rollback!": os.Truncate(dstPath, dstSize), then the error return
LockRollback(p) ==
    /\ lkCall[p].pc = "rollback"
    /\ lkDst' = Rollback(lkDst, lkCall[p].dstSize, "none")
    /\ LockReturn(p, "digest-postcheck-failed")
    /\ UNCHANGED <<lkDst0, mvVars, worldVars, rcVars, sdVars, plVars, vfVars,
                   dgVars, pwVars, envFaults>>

\* "4. Delete the source file", then return nil
LockRemove(p) ==
    /\ lkCall[p].pc = "remove"
    /\ lkCall' = [lkCall EXCEPT ![p].pc = "returned", ![p].err = "",
                                ![p].src = RemoveSource(@)]
    /\ lkHolder' = Unlock(p)
    /\ UNCHANGED <<lkDst, lkDst0, mvVars, worldVars, rcVars, sdVars, plVars,
                   vfVars, dgVars, pwVars, envFaults>>

NextLock ==
    \E p \in Callers :
        \/ LockPreCheck(p)
        \/ LockOpenFile(p)
        \/ LockFlock(p)
        \/ LockFlockFails(p)
        \/ LockOpenDst(p)
        \/ LockSizeCheck(p)
        \/ LockCopy(p)
        \/ LockDigestCheck(p)
        \/ LockRollback(p)
        \/ LockRemove(p)

SpecLock == InitLock /\ [][NextLock]_vars

----------------------------------------------------------------------------
(* Specification SpecPool: the goroutines of one processDoneFiles call that
   found PoolFiles files *)

InitPool ==
    /\ mvSrc = NoFile /\ mvDst = NoFile /\ mvCall = NoCall
    /\ WorldIdle
    /\ RecvIdle
    /\ SendIdle
    /\ PlanIdle
    /\ VfsIdle
    /\ DigestIdle
    /\ LockIdle
    /\ pwNext = 0
    /\ pwStage = [i \in 1..PoolFiles |-> "found"]
    /\ pwSem = 0
    /\ envFaults = FALSE

\* fileLoop: wg.Add(1) and "go func(info downloadedFileInfo)" for the next
\* file of downloadedFiles
PoolDispatch ==
    /\ pwNext < PoolFiles
    /\ pwNext' = pwNext + 1
    /\ pwStage' = [pwStage EXCEPT ![pwNext + 1] = "waiting"]
    /\ UNCHANGED <<pwSem, mvVars, worldVars, rcVars, sdVars, plVars, vfVars,
                   dgVars, lkVars, envFaults>>

\* Mutant: the semaphore channel is unbuffered and never blocks a sender
SemaphoreUnbounded(tokens) == TRUE

\* "semaphore <- struct{}{}" on a channel of capacity maxConcurrency blocks
\* while the channel is full
SemaphoreHasRoom(tokens) == tokens < maxConcurrency

\* the goroutine of file i takes a token and calls onFileTransferred
PoolAcquire(i) ==
    /\ pwStage[i] = "waiting"
    /\ SemaphoreHasRoom(pwSem)
    /\ pwSem' = pwSem + 1
    /\ pwStage' = [pwStage EXCEPT ![i] = "running"]
    /\ UNCHANGED <<pwNext, mvVars, worldVars, rcVars, sdVars, plVars, vfVars,
                   dgVars, lkVars, envFaults>>

\* onFileTransferred has returned: "defer func() { <-semaphore }()" and
\* "defer wg.Done()"
PoolRelease(i) ==
    /\ pwStage[i] = "running"
    /\ pwSem' = pwSem - 1
    /\ pwStage' = [pwStage EXCEPT ![i] = "done"]
    /\ UNCHANGED <<pwNext, mvVars, worldVars, rcVars, sdVars, plVars, vfVars,
                   dgVars, lkVars, envFaults>>

NextPool ==
    \/ PoolDispatch
    \/ \E i \in 1..PoolFiles : PoolAcquire(i)
    \/ \E i \in 1..PoolFiles : PoolRelease(i)

SpecPool == InitPool /\ [][NextPool]_vars

----------------------------------------------------------------------------
(* Specification SpecPlan *)

InitPlan ==
    /\ mvSrc = NoFile /\ mvDst = NoFile /\ mvCall = NoCall
    /\ WorldIdle
    /\ RecvIdle
    /\ SendIdle
    /\ plIn \in PlanInputs
    /\ plOut = NoPlan
    /\ VfsIdle
    /\ DigestIdle
    /\ LockIdle
    /\ PoolIdle
    /\ envFaults = TRUE

CallGenerateFileLists ==
    /\ ~plOut.done
    /\ LET r == GenerateFileLists(plIn.exists, plIn.dst, plIn.src, plIn.skip)
       IN  plOut' = [done |-> TRUE, panic |-> r.panic, tasks |-> r.tasks]
    /\ UNCHANGED <<plIn, mvVars, worldVars, rcVars, sdVars, vfVars, dgVars, lkVars, pwVars, envFaults>>

NextPlan == CallGenerateFileLists

SpecPlan == InitPlan /\ [][NextPlan]_vars

----------------------------------------------------------------------------
(* Specification SpecDigest: one SampleMD5 call on a file that exists *)

InitDigest ==
    /\ mvSrc = NoFile /\ mvDst = NoFile /\ mvCall = NoCall
    /\ WorldIdle
    /\ RecvIdle
    /\ SendIdle
    /\ PlanIdle
    /\ VfsIdle
    /\ LockIdle
    /\ PoolIdle
    /\ dgIn \in [data : DigestFiles, skip : 0..MaxSkip, size : DigestSizes]
    /\ dgOut = NoDigestResult
    /\ envFaults = FALSE

CallSampleMD5 ==
    /\ dgOut = NoDigestResult
    /\ dgOut' = SampleMD5(dgIn.data, dgIn.skip, dgIn.size)
    /\ UNCHANGED <<dgIn, mvVars, worldVars, rcVars, sdVars, plVars, vfVars,
                   lkVars, pwVars, envFaults>>

NextDigest == CallSampleMD5

SpecDigest == InitDigest /\ [][NextDigest]_vars

----------------------------------------------------------------------------
(* Specification SpecVfs: calls on a mounted view, one at a time *)

InitVfs ==
    /\ mvSrc = NoFile /\ mvDst = NoFile /\ mvCall = NoCall
    /\ WorldIdle
    /\ RecvIdle
    /\ SendIdle
    /\ PlanIdle
    /\ vfCfg \in [offset : 0..MaxOff, size : 0..MaxOff, readOnly : BOOLEAN]
    /\ vfFile \in {NoFile} \cup {RegFile(d) : d \in BytesUpTo(MaxSrc)}
    /\ vfStamp = "orig"
    /\ vfLast = NoOp
    /\ DigestIdle
    /\ LockIdle
    /\ PoolIdle
    /\ envFaults = TRUE

VfsGetattr ==
    /\ vfLast.op = "none"
    /\ \E path \in VfsPaths, fault \in {"none", "stat"} :
         LET r == Getattr(path, fault)
         IN  vfLast' = [op |-> "getattr", path |-> path, ofst |-> 0,
                        len |-> 0, fault |-> fault, errno |-> r.errno,
                        size |-> r.size, data |-> <<>>]
    /\ UNCHANGED <<vfCfg, vfFile, vfStamp, mvVars, worldVars, rcVars, sdVars,
                   plVars, dgVars, lkVars, pwVars, envFaults>>

VfsRead ==
    /\ vfLast.op = "none"
    /\ \E path \in VfsPaths, len \in 0..MaxOff, ofst \in 0..MaxOff,
          fault \in VfsFaults :
         LET r == Read(path, len, ofst, fault)
         IN  vfLast' = [op |-> "read", path |-> path, ofst |-> ofst,
                        len |-> len, fault |-> fault, errno |-> r.errno,
                        size |-> r.size, data |-> r.data]
    /\ UNCHANGED <<vfCfg, vfFile, vfStamp, mvVars, worldVars, rcVars, sdVars,
                   plVars, dgVars, lkVars, pwVars, envFaults>>

VfsOpen ==
    /\ vfLast.op = "none"
    /\ \E path \in VfsPaths, flags \in OpenFlags, fault \in {"none", "stat"} :
         vfLast' = [op |-> "open", path |-> path, ofst |-> 0, len |-> 0,
                    fault |-> fault, errno |-> Open(path, flags, fault),
                    size |-> 0, data |-> <<>>]
    /\ UNCHANGED <<vfCfg, vfFile, vfStamp, mvVars, worldVars, rcVars, sdVars,
                   plVars, dgVars, lkVars, pwVars, envFaults>>

\* the source file is kept within MaxSrc bytes
VfsWrite ==
    /\ vfLast.op = "none"
    /\ \E path \in VfsPaths, buff \in BytesUpTo(MaxLen), ofst \in 0..MaxOff,
          fault \in VfsWriteFaults \ {"chtimes"} :
         LET r == Write(path, buff, ofst, fault)
         IN  /\ FileSize(r.file) <= MaxSrc
             /\ vfLast' = [op |-> "write", path |-> path, ofst |-> ofst,
                           len |-> Len(buff), fault |-> fault,
                           errno |-> r.errno, size |-> r.size, data |-> buff]
             /\ vfFile' = r.file
             /\ vfStamp' = r.stamp
    /\ UNCHANGED <<vfCfg, mvVars, worldVars, rcVars, sdVars, plVars,
                   dgVars, lkVars, pwVars, envFaults>>

VfsTruncate ==
    /\ vfLast.op = "none"
    /\ \E path \in VfsPaths, size \in 0..MaxOff :
         vfLast' = [op |-> "truncate", path |-> path, ofst |-> 0,
                    len |-> size, fault |-> "none", errno |-> FsTruncate(path),
                    size |-> 0, data |-> <<>>]
    /\ UNCHANGED <<vfCfg, vfFile, vfStamp, mvVars, worldVars, rcVars, sdVars,
                   plVars, dgVars, lkVars, pwVars, envFaults>>

VfsUtimens ==
    /\ vfLast.op = "none"
    /\ \E path \in VfsPaths, ntimes \in {0, 2}, fault \in {"none", "chtimes"} :
         LET r == Utimens(path, ntimes, fault)
         IN  /\ vfLast' = [op |-> "utimens", path |-> path, ofst |-> 0,
                           len |-> ntimes, fault |-> fault, errno |-> r.errno,
                           size |-> 0, data |-> <<>>]
             /\ vfStamp' = r.stamp
    /\ UNCHANGED <<vfCfg, vfFile, mvVars, worldVars, rcVars, sdVars, plVars,
                   dgVars, lkVars, pwVars, envFaults>>

\* the caller has the result; the view keeps no state between calls
VfsReturn ==
    /\ vfLast.op # "none"
    /\ vfLast' = NoOp
    /\ UNCHANGED <<vfCfg, vfFile, vfStamp, mvVars, worldVars, rcVars, sdVars,
                   plVars, dgVars, lkVars, pwVars, envFaults>>

NextVfs ==
    \/ VfsGetattr
    \/ VfsRead
    \/ VfsOpen
    \/ VfsWrite
    \/ VfsTruncate
    \/ VfsUtimens
    \/ VfsReturn

SpecVfs == InitVfs /\ [][NextVfs]_vars

----------------------------------------------------------------------------
(* Receiver: cmd/recv.go *)

\* onFileTransferred: isPartial := strings.Contains(filePath, ".offset."),
\* on the path of the cache file, the cache directory included
IsPartial(filePath) == Contains(filePath, Marker)

\* onFileTransferred: expectedDstSizeBeforeTransfer, the zero value unless
\* the path is partial and the last part of strings.Split(filePath,
\* ".offset.") parses as a decimal number
ExpectedDstSize(filePath) ==
    LET size == ParseInt(LastPart(filePath, Marker))
    IN  IF IsPartial(filePath) /\ ~size.err THEN size.v ELSE 0

\* Mutant: append mode is taken only for a positive expected size
CopyModeBySize(filePath) ==
    IF ExpectedDstSize(filePath) > 0 THEN CopyModeAppend
    ELSE CopyModeOverwrite

\* onFileTransferred: copyMode
CopyModeOf(filePath) ==
    IF IsPartial(filePath) THEN CopyModeAppend ELSE CopyModeOverwrite

\* scanDownloadedFiles: downloadedFileInfo.filePath of a virtual name
FilePath(n) == CachePath(CacheDir, n)

\* I/O outcomes of MoveFile explored in the receiver
RecvFaults == {"none", "open_src", "copy_err", "remove"}

\* outcomes of an I/O operation: TRUE is success
OkChoices == IF envFaults THEN BOOLEAN ELSE {TRUE}

\* the receiver meets at most MaxFaults failures in a behaviour
FaultsLeft == envFaults /\ rcFaults < MaxFaults
RecvOkChoices == IF FaultsLeft THEN BOOLEAN ELSE {TRUE}
RecvFaultChoices == IF FaultsLeft THEN RecvFaults ELSE {"none"}
Injected(ok) == IF ok THEN rcFaults ELSE rcFaults + 1


\* generateTasks: the plan without the names the store reports finished
GenerateTasks(useDB) ==
    IF useDB THEN Names \ ListFinishedVirtualPaths ELSE Names

\* rclone.ListFiles on the bucket
ListFiles == [n \in AllNames |->
                 IF bucket[n].exists THEN FileSize(bucket[n]) ELSE -1]

\* Mutant: a cache file of any size is submitted
ScanSizeOkAlways(actual, expected) == TRUE

\* scanDownloadedFiles: "check file size", info.Size() != task.Size skips
ScanSizeOk(actual, expected) == actual = expected

\* WocSyncTask.TargetPath: the path of the destination shard, empty for
\* the full-copy task of an object the destination does not have
HasTargetPath(n) == DestBefore(n).exists

\* scanDownloadedFiles, head of the Walk callback: a file the walk cannot
\* access is logged and skipped ("Error accessing file", return nil)
WalkErrChoices ==
    IF FaultsLeft
    THEN {skipped \in SUBSET {n \in Names : cache[n].exists /\ n \in rcPlan} :
            rcFaults + Cardinality(skipped) <= MaxFaults}
    ELSE {{}}

\* scanDownloadedFiles: the cache files of the plan whose destination
\* directory the walk creates with os.MkdirAll before their size is looked at
ScanMkdirAll(skipped) ==
    {n \in Names \ skipped :
        cache[n].exists /\ n \in rcPlan /\ ~HasTargetPath(n)}

\* scanDownloadedFiles: the cache files a reconcile pass submits
ScanDownloadedFiles ==
    {n \in Names : /\ cache[n].exists
                   /\ n \in rcPlan
                   /\ ScanSizeOk(FileSize(cache[n]), TaskSize(n))}

\* Mutant: an object of a completed name is downloaded again
NotIgnoredAlways(n, ignored) == TRUE

\* runRecv: "if it is ignored, skip it"
NotIgnored(n, ignored) == n \notin ignored

\* runRecv: "what files need to sync?"
BuildFileList(existing, ignored, plan) ==
    {n \in AllNames : /\ existing[n] >= 0
                      /\ NotIgnored(n, ignored)
                      /\ n \in plan
                      /\ TaskSize(n) = existing[n]}

\* Mutant: the bucket delete is called although UpdateTask failed
AfterUpdateIgnoringError(ok) == "delete"

\* onFileTransferred after dbHandle.UpdateTask: an error returns, success
\* goes on to finishedCallback
AfterUpdate(ok) == IF ok THEN "delete" ELSE "idle"

\* onFileTransferred after MoveFile returned nil: dbHandle == nil returns
AfterMove(useDB) == IF useDB THEN "update" ELSE "idle"

\* Mutant: the loop returns as soon as the downloader is done
AfterLoopPassNoFinal(dl) == IF dl = "done" THEN "return" ELSE "loop"

\* runRecv main loop after a pass: downloadDone ready -> one final pass,
\* otherwise sleep and run the next pass
AfterLoopPass(dl) == IF dl = "done" THEN "final" ELSE "loop"

\* deleteFileFunc: whether it returns an error (fsrc.NewObject finds no
\* object under the name, or the request fails); nil without --delete-remote
DeleteRemoteErr(n, ok) == rcDeleteRemote /\ (~ok \/ ~bucket[n].exists)

\* deleteFileFunc: fsrc.NewObject + operations.DeleteFile, a no-op without
\* --delete-remote.  Changes the bucket and the delete history.
DeleteRemoteFile(n, ok) ==
    IF rcDeleteRemote
    THEN /\ rcDelIssued' = [rcDelIssued EXCEPT ![n] = @ + 1]
         /\ rcRunDel' = rcRunDel \cup {n}
         /\ IF ok /\ bucket[n].exists
            THEN /\ bucket' = [bucket EXCEPT ![n] = NoFile]
                 /\ rcDeleted' = [rcDeleted EXCEPT ![n] = @ + 1]
            ELSE UNCHANGED <<bucket, rcDeleted>>
    ELSE UNCHANGED <<bucket, rcDelIssued, rcDeleted, rcRunDel>>

\* processDoneFiles: its locals (no file found, the file loop was left on
\* ctx.Done, errChan is not empty, scanDownloadedFiles returned an error,
\* the cache files the walk could not access)
NoLocal == [empty |-> FALSE, broke |-> FALSE, errs |-> FALSE,
            scanErr |-> FALSE, skipped |-> {}]

RunLocalReset ==
    /\ rcPlan' = {}
    /\ rcExisting' = NoneListed
    /\ rcIgnored' = {}
    /\ rcStartDel' = {}
    /\ rcFileList' = {}
    /\ rcPass' = "none"
    /\ rcWork' = AllIdle
    /\ rcDl' = "off"
    /\ rcDlTodo' = {}
    /\ rcLocal' = NoLocal

\* recvCmd.Run: connectDB, generateTasks, then runRecv unless the plan is
\* empty ("No tasks to execute, skipping file transfer")
RecvStart ==
    /\ rcPc = "stopped"
    /\ rcRuns < MaxRuns
    /\ rcRuns' = rcRuns + 1
    /\ rcRunDel' = {}
    /\ rcLingering' = {n \in Names : store[n] = Downloaded /\ bucket[n].exists}
    /\ rcCancelled' = FALSE
    /\ rcMoveFailed' = {}
    /\ rcPending' = {}
    /\ \E ok \in RecvOkChoices :
         /\ rcFaults' = Injected(ok)
         /\ ok \/ rcUseDB
         /\ rcFailed' = (rcFailed \/ ~ok)
         /\ IF ~ok
            THEN /\ rcPc' = "stopped" /\ rcEnd' = "error"
                 /\ RunLocalReset
            ELSE IF GenerateTasks(rcUseDB) = {}
            THEN /\ rcPc' = "stopped" /\ rcEnd' = "skipped"
                 /\ RunLocalReset
            ELSE /\ rcPc' = "list" /\ rcEnd' = "none"
                 /\ rcPlan' = GenerateTasks(rcUseDB)
                 /\ UNCHANGED <<rcExisting, rcIgnored, rcStartDel, rcFileList,
                                rcPass, rcWork, rcDl, rcDlTodo, rcLocal>>
    /\ UNCHANGED <<worldVars, rcUseDB, rcDeleteRemote, rcPlaced, rcDelIssued,
                   rcDeleted, rcTry, rcErrored, mvVars, sdVars, plVars, vfVars,
                   dgVars, lkVars,
                   pwVars, envFaults>>

\* runRecv: rclone.ListFiles (an error is logged and the run goes on with an
\* empty listing), then the initial processDoneFiles
RecvList ==
    /\ rcPc = "list"
    /\ \E ok \in RecvOkChoices :
         /\ rcFaults' = Injected(ok)
         /\ rcExisting' = IF ok THEN ListFiles ELSE NoneListed
         /\ rcFailed' = (rcFailed \/ ~ok)
    /\ rcPc' = "scan"
    /\ rcPass' = "init"
    /\ UNCHANGED <<worldVars, rcUseDB, rcDeleteRemote, rcPlan, rcIgnored,
                   rcStartDel, rcFileList, rcWork, rcDl, rcDlTodo, rcEnd,
                   rcRuns, rcPlaced, rcDelIssued, rcDeleted, rcRunDel,
                   rcLingering, rcCtxVars, rcTry, rcErrored, mvVars, sdVars,
                   plVars, vfVars,
                   dgVars, lkVars, pwVars, envFaults>>

\* processDoneFiles: scanDownloadedFiles; "found" files wait in the file
\* loop.  A file the walk cannot access is skipped.  An os.MkdirAll that
\* fails ends the walk, and the scan returns the error without any file.
PassScan ==
    /\ rcPc = "scan"
    /\ \E skipped \in WalkErrChoices :
       \E ok \in (IF ScanMkdirAll(skipped) = {} THEN {TRUE}
                  ELSE RecvOkChoices) :
         LET found == ScanDownloadedFiles \ skipped
             failures == Cardinality(skipped) + (IF ok THEN 0 ELSE 1)
         IN  /\ rcFaults + failures <= MaxFaults
             /\ rcFaults' = rcFaults + failures
             /\ rcWork' = [n \in Names |->
                             IF ok /\ n \in found THEN "found" ELSE "idle"]
             /\ rcLocal' = [NoLocal EXCEPT
                               !.empty = (ok /\ found = {}),
                               !.scanErr = ~ok,
                               !.skipped = skipped]
             /\ rcFailed' = (rcFailed \/ ~ok \/ skipped # {})
    /\ rcPc' = "pass"
    /\ UNCHANGED <<worldVars, rcUseDB, rcDeleteRemote, rcPlan, rcExisting,
                   rcIgnored, rcStartDel, rcFileList, rcPass, rcDl, rcDlTodo,
                   rcEnd, rcRuns, rcPlaced, rcDelIssued, rcDeleted, rcRunDel,
                   rcLingering, rcCancelled, rcMoveFailed, rcPending,
                   rcTry, rcErrored, mvVars, sdVars, plVars, vfVars, dgVars,
                   lkVars,
                   pwVars, envFaults>>

\* processDoneFiles, fileLoop: on ctx.Done the loop is left and no further
\* file is handed out; otherwise one goroutine is started for the file
PassDispatch(n) ==
    /\ rcPc = "pass"
    /\ rcWork[n] = "found"
    /\ IF rcCancelled
       THEN /\ rcWork' = [m \in Names |->
                            IF rcWork[m] = "found" THEN "idle" ELSE rcWork[m]]
            /\ rcLocal' = [rcLocal EXCEPT !.broke = TRUE]
       ELSE /\ rcWork' = [rcWork EXCEPT ![n] = "queued"]
            /\ UNCHANGED rcLocal
    /\ UNCHANGED <<worldVars, rcUseDB, rcDeleteRemote, rcPc, rcPlan,
                   rcExisting, rcIgnored, rcStartDel, rcFileList, rcPass,
                   rcDl, rcDlTodo, rcEnd, rcHistVars, rcCancelled,
                   rcMoveFailed, rcPending, rcEnvVars, mvVars, sdVars, plVars,
                   vfVars,
                   dgVars, lkVars, pwVars, envFaults>>

\* Mutant: the record is updated although MoveFile returned an error
OnMoveErrorGoOn(useDB) == IF useDB THEN "update" ELSE "idle"

\* onFileTransferred: "if err != nil { return err }" after woc.MoveFile
OnMoveError(useDB) == "idle"

\* the goroutine of a file, once it has its semaphore token: on ctx.Done it
\* returns at once, otherwise it goes on to onFileTransferred
WorkerCheck(n) ==
    /\ rcPc = "pass"
    /\ rcWork[n] = "queued"
    /\ rcWork' = [rcWork EXCEPT ![n] = IF rcCancelled THEN "idle" ELSE "moving"]
    /\ UNCHANGED <<worldVars, rcUseDB, rcDeleteRemote, rcPc, rcPlan,
                   rcExisting, rcIgnored, rcStartDel, rcFileList, rcPass,
                   rcDl, rcDlTodo, rcEnd, rcHistVars, rcCancelled, rcLocal,
                   rcMoveFailed, rcPending, rcEnvVars, mvVars, sdVars, plVars,
                   vfVars,
                   dgVars, lkVars, pwVars, envFaults>>

\* the steps of a goroutine that is inside woc.MoveFile
InMoveFile == {"moving", "locked", "opened", "copied"}

\* onFileTransferred: woc.MoveFile returned an error, which goes to errChan
MoveFileFails(n) ==
    /\ rcWork' = [rcWork EXCEPT ![n] = OnMoveError(rcUseDB)]
    /\ rcMoveFailed' = rcMoveFailed \cup {n}
    /\ rcLocal' = [rcLocal EXCEPT !.errs = TRUE]
    /\ rcFailed' = TRUE

\* woc.MoveFile, up to the flock: os.Stat and os.Open of the cache file, the
\* overwrite-mode digest pre-check, and os.OpenFile(dstPath, O_CREATE),
\* which creates a missing destination
WorkerMove(n) ==
    /\ rcPc = "pass"
    /\ rcWork[n] = "moving"
    /\ rcPending' = rcPending \ {n}
    /\ \E fault \in RecvFaultChoices \cap {"none", "open_src"} :
         /\ rcFaults' = Injected(fault = "none")
         /\ IF \/ ~cache[n].exists
               \/ ~cache[n].regular
               \/ fault = "open_src"
               \/ PreCheckDigest(cache[n], CopyModeOf(FilePath(n)), SourceDigest(n),
                                 fault) # ""
            THEN /\ MoveFileFails(n)
                 /\ dest' = [dest EXCEPT ![n] = DstAtPreCheck(@)]
            ELSE /\ dest' = [dest EXCEPT ![n] = OpenForLock(@)]
                 /\ rcWork' = [rcWork EXCEPT ![n] = "locked"]
                 /\ UNCHANGED <<rcMoveFailed, rcLocal, rcFailed>>
    /\ UNCHANGED <<bucket, store, cache, rcUseDB, rcDeleteRemote, rcPc,
                   rcPlan, rcExisting, rcIgnored, rcStartDel, rcFileList,
                   rcPass, rcDl, rcDlTodo, rcEnd, rcRuns, rcPlaced,
                   rcDelIssued, rcDeleted, rcRunDel, rcLingering, rcCancelled,
                   rcTry, rcErrored, mvVars, sdVars, plVars, vfVars, dgVars,
                   lkVars,
                   pwVars, envFaults>>

\* woc.MoveFile: syscall.Flock is granted, the destination is opened with
\* O_TRUNC or O_APPEND, and its size is checked in append mode
WorkerLock(n) ==
    /\ rcPc = "pass"
    /\ rcWork[n] = "locked"
    /\ LET opened == OpenForWrite(dest[n], CopyModeOf(FilePath(n)))
       IN  /\ dest' = [dest EXCEPT ![n] = opened]
           /\ IF PreCheckSize(CopyModeOf(FilePath(n)), ExpectedDstSize(FilePath(n)),
                              FileSize(opened)) # ""
              THEN MoveFileFails(n)
              ELSE /\ rcWork' = [rcWork EXCEPT ![n] = "opened"]
                   /\ UNCHANGED <<rcMoveFailed, rcLocal, rcFailed>>
    /\ UNCHANGED <<bucket, store, cache, rcUseDB, rcDeleteRemote, rcPc,
                   rcPlan, rcExisting, rcIgnored, rcStartDel, rcFileList,
                   rcPass, rcDl, rcDlTodo, rcEnd, rcRuns, rcPlaced,
                   rcDelIssued, rcDeleted, rcRunDel, rcLingering, rcCancelled,
                   rcPending, rcEnvVars, mvVars, sdVars, plVars, vfVars,
                   dgVars, lkVars,
                   pwVars, envFaults>>

\* woc.MoveFile: io.Copy from the cache file into the destination
WorkerCopy(n) ==
    /\ rcPc = "pass"
    /\ rcWork[n] = "opened"
    /\ \E fault \in RecvFaultChoices \cap {"none", "copy_err"} :
         /\ rcFaults' = Injected(fault = "none")
         /\ LET written == CopyWritten(cache[n], fault, 0)
            IN  /\ dest' = [dest EXCEPT ![n] = CopyInto(@, cache[n], written)]
                /\ IF fault = "copy_err" \/ written # FileSize(cache[n])
                   THEN MoveFileFails(n)
                   ELSE /\ rcWork' = [rcWork EXCEPT ![n] = "copied"]
                        /\ UNCHANGED <<rcMoveFailed, rcLocal, rcFailed>>
    /\ UNCHANGED <<bucket, store, cache, rcUseDB, rcDeleteRemote, rcPc,
                   rcPlan, rcExisting, rcIgnored, rcStartDel, rcFileList,
                   rcPass, rcDl, rcDlTodo, rcEnd, rcRuns, rcPlaced,
                   rcDelIssued, rcDeleted, rcRunDel, rcLingering, rcCancelled,
                   rcPending, rcTry, rcErrored, mvVars, sdVars, plVars, vfVars,
                   dgVars, lkVars,
                   pwVars, envFaults>>

\* woc.MoveFile after the copy: the append-mode digest post-check with its
\* rollback, then os.Remove of the cache file; onFileTransferred goes on
\* when MoveFile returned nil
WorkerRemove(n) ==
    /\ rcPc = "pass"
    /\ rcWork[n] = "copied"
    /\ \E fault \in RecvFaultChoices \cap {"none", "remove"} :
         /\ rcFaults' = Injected(fault = "none")
         /\ LET post == SampleMD5(dest[n].data, 0, 0)
                checked == CopyModeOf(FilePath(n)) = CopyModeAppend
                              /\ SourceDigest(n) # NoDigest
            IN  IF checked /\ post.err # ""
                THEN /\ MoveFileFails(n)
                     /\ UNCHANGED <<cache, dest, rcPlaced>>
                ELSE IF checked /\ post.digest # SourceDigest(n)
                THEN /\ MoveFileFails(n)
                     /\ dest' = [dest EXCEPT ![n] =
                                    Rollback(@, ExpectedDstSize(FilePath(n)), fault)]
                     /\ UNCHANGED <<cache, rcPlaced>>
                ELSE IF fault = "remove"
                THEN /\ MoveFileFails(n)
                     /\ UNCHANGED <<cache, dest, rcPlaced>>
                ELSE /\ cache' = [cache EXCEPT ![n] = RemoveSource(@)]
                     /\ rcPlaced' = [rcPlaced EXCEPT ![n] = @ + 1]
                     /\ rcWork' = [rcWork EXCEPT ![n] = AfterMove(rcUseDB)]
                     /\ rcMoveFailed' = rcMoveFailed \ {n}
                     /\ UNCHANGED <<dest, rcLocal, rcFailed>>
    /\ UNCHANGED <<bucket, store, rcUseDB, rcDeleteRemote, rcPc, rcPlan,
                   rcExisting, rcIgnored, rcStartDel, rcFileList, rcPass,
                   rcDl, rcDlTodo, rcEnd, rcRuns, rcDelIssued, rcDeleted,
                   rcRunDel, rcLingering, rcCancelled, rcPending, rcTry,
                   rcErrored, mvVars,
                   sdVars, plVars, vfVars, dgVars, lkVars, pwVars, envFaults>>

\* onFileTransferred: dbHandle.UpdateTask(Status: db.Downloaded)
WorkerUpdate(n) ==
    /\ rcPc = "pass"
    /\ rcWork[n] = "update"
    /\ \E ok \in RecvOkChoices :
         /\ rcFaults' = Injected(ok)
         /\ store' = IF ok THEN [store EXCEPT ![n] = Downloaded] ELSE store
         /\ rcWork' = [rcWork EXCEPT ![n] = AfterUpdate(ok)]
         /\ rcFailed' = (rcFailed \/ ~ok)
         /\ rcLocal' = [rcLocal EXCEPT !.errs = (@ \/ ~ok)]
    /\ UNCHANGED <<bucket, cache, dest, rcUseDB, rcDeleteRemote, rcPc, rcPlan,
                   rcExisting, rcIgnored, rcStartDel, rcFileList, rcPass,
                   rcDl, rcDlTodo, rcEnd, rcRuns, rcPlaced, rcDelIssued,
                   rcDeleted, rcRunDel, rcLingering, rcCancelled,
                   rcMoveFailed, rcPending, rcTry, rcErrored, mvVars, sdVars,
                   plVars, vfVars,
                   dgVars, lkVars, pwVars, envFaults>>

\* onFileTransferred: finishedCallback(task.VirtualPath)
WorkerDelete(n) ==
    /\ rcPc = "pass"
    /\ rcWork[n] = "delete"
    /\ \E ok \in RecvOkChoices :
         /\ rcFaults' = Injected(ok)
         /\ DeleteRemoteFile(n, ok)
         /\ rcFailed' = (rcFailed \/ ~ok \/ DeleteRemoteErr(n, ok))
         /\ rcLocal' = [rcLocal EXCEPT !.errs = (@ \/ DeleteRemoteErr(n, ok))]
    /\ rcWork' = [rcWork EXCEPT ![n] = "idle"]
    /\ UNCHANGED <<store, cache, dest, rcUseDB, rcDeleteRemote, rcPc, rcPlan,
                   rcExisting, rcIgnored, rcStartDel, rcFileList, rcPass,
                   rcDl, rcDlTodo, rcEnd, rcRuns, rcPlaced, rcLingering,
                   rcCancelled, rcMoveFailed, rcPending, rcTry, rcErrored,
                   mvVars, sdVars,
                   plVars, vfVars, dgVars, lkVars, pwVars, envFaults>>

\* Mutant: the ctx.Done branch of the pass returns without its wg.Wait()
PassMayReturnOnCancel(work, cancelled) == work = AllIdle \/ cancelled

\* Mutant: the pass returns without waiting for its goroutines
PassMayReturnEarly(work, cancelled) == TRUE

\* processDoneFiles: wg.Wait(), on the done branch and on the ctx.Done branch
PassMayReturn(work, cancelled) == work = AllIdle

\* processDoneFiles: the select on done and ctx.Done
PassSelect(cancelled) == IF cancelled THEN {"done", "ctx"} ELSE {"done"}

\* Mutant: a pass with failed files returns an error
PassErrorOnFailure(local, sel) ==
    IF local.scanErr THEN TRUE
    ELSE IF local.empty THEN FALSE
    ELSE IF sel = "ctx" THEN TRUE
    ELSE local.errs \/ local.broke

\* processDoneFiles: whether it returns an error (the scan failed: its
\* error; no file found: nil; the ctx.Done branch: an error; failed files:
\* nil; the file loop was left: an error)
PassError(local, sel) ==
    IF local.scanErr THEN TRUE
    ELSE IF local.empty THEN FALSE
    ELSE IF sel = "ctx" THEN TRUE
    ELSE IF local.errs THEN FALSE
    ELSE local.broke

\* runRecv, "case copyErr = <-downloadDone": an error of the final pass
\* makes the run return an error; otherwise it returns what CopyFiles gave
FinalResult(passErr) == IF passErr THEN "error" ELSE "returned"

\* runRecv main loop: the cases of the select that are ready
LoopSelect(dl, cancelled) ==
    IF dl # "done" /\ ~cancelled THEN {"default"}
    ELSE (IF dl = "done" THEN {"downloadDone"} ELSE {})
            \cup (IF cancelled THEN {"ctx"} ELSE {})

\* processDoneFiles returns and runRecv goes on
PassEnd ==
    /\ rcPc = "pass"
    /\ PassMayReturn(rcWork, rcCancelled)
    /\ \E sel \in PassSelect(rcCancelled), br \in LoopSelect(rcDl, rcCancelled) :
         CASE rcPass = "init" /\ PassError(rcLocal, sel) ->
                  /\ rcPc' = "stopped" /\ rcEnd' = "error"
                  /\ RunLocalReset
           [] rcPass = "init" /\ ~PassError(rcLocal, sel) ->
                  /\ rcPc' = "ignored"
                  /\ rcLocal' = NoLocal
                  /\ UNCHANGED <<rcPass, rcEnd, rcPlan, rcExisting, rcIgnored,
                                 rcStartDel, rcFileList, rcWork, rcDl,
                                 rcDlTodo>>
           [] rcPass = "loop" /\ br = "downloadDone"
                /\ AfterLoopPass(rcDl) = "return" ->
                  /\ rcPc' = "stopped" /\ rcEnd' = "returned"
                  /\ RunLocalReset
           [] rcPass = "loop" /\ br = "downloadDone"
                /\ AfterLoopPass(rcDl) # "return" ->
                  /\ rcPc' = "scan"
                  /\ rcPass' = AfterLoopPass(rcDl)
                  /\ rcLocal' = NoLocal
                  /\ UNCHANGED <<rcEnd, rcPlan, rcExisting, rcIgnored,
                                 rcStartDel, rcFileList, rcWork, rcDl,
                                 rcDlTodo>>
           [] rcPass = "loop" /\ br = "ctx" ->
                  /\ rcPc' = "stopped" /\ rcEnd' = "cancelled"
                  /\ RunLocalReset
           [] rcPass = "loop" /\ br = "default" ->
                  /\ rcPc' = "sleep"
                  /\ rcLocal' = NoLocal
                  /\ UNCHANGED <<rcPass, rcEnd, rcPlan, rcExisting, rcIgnored,
                                 rcStartDel, rcFileList, rcWork, rcDl,
                                 rcDlTodo>>
           [] rcPass = "final" ->
                  /\ rcPc' = "stopped"
                  /\ rcEnd' = FinalResult(PassError(rcLocal, sel))
                  /\ RunLocalReset
    /\ UNCHANGED <<worldVars, rcUseDB, rcDeleteRemote, rcHistVars,
                   rcCancelled, rcMoveFailed, rcPending, rcEnvVars, mvVars,
                   sdVars,
                   plVars, vfVars, dgVars, lkVars, pwVars, envFaults>>

\* runRecv, the wait between two passes: the cases of its select that can
\* become ready
SleepSelect(cancelled) == IF cancelled THEN {"ctx", "timer"} ELSE {"timer"}

\* runRecv: time.After(2 * time.Minute) fires and the loop runs its next
\* pass
RecvWake ==
    /\ rcPc = "sleep"
    /\ "timer" \in SleepSelect(rcCancelled)
    /\ rcPc' = "scan"
    /\ UNCHANGED <<worldVars, rcUseDB, rcDeleteRemote, rcPlan, rcExisting,
                   rcIgnored, rcStartDel, rcFileList, rcPass, rcWork, rcDl,
                   rcDlTodo, rcEnd, rcLocal, rcHistVars, rcCancelled,
                   rcMoveFailed, rcPending, rcEnvVars, mvVars, sdVars,
                   plVars, vfVars, dgVars, lkVars, pwVars, envFaults>>

\* runRecv: "update task list" - dbHandle.ListFinishedVirtualPaths into
\* ignoredFilesMap; an error returns
RecvLoadIgnored ==
    /\ rcPc = "ignored"
    /\ \E ok \in RecvOkChoices :
         /\ rcFaults' = Injected(ok)
         /\ ok \/ rcUseDB
         /\ rcFailed' = (rcFailed \/ ~ok)
         /\ IF ok
            THEN LET ign == IF rcUseDB THEN ListFinishedVirtualPaths ELSE {}
                 IN  /\ rcIgnored' = ign
                     /\ rcStartDel' = {n \in Names : rcExisting[n] >= 0
                                                     /\ n \in ign}
                     /\ rcPc' = "startdel"
                     /\ UNCHANGED <<rcEnd, rcPlan, rcExisting, rcFileList,
                                    rcPass, rcWork, rcDl, rcDlTodo, rcLocal>>
            ELSE /\ rcPc' = "stopped" /\ rcEnd' = "error"
                 /\ RunLocalReset
    /\ UNCHANGED <<worldVars, rcUseDB, rcDeleteRemote, rcRuns, rcPlaced,
                   rcDelIssued, rcDeleted, rcRunDel, rcLingering, rcCancelled,
                   rcMoveFailed, rcPending, rcTry, rcErrored, mvVars, sdVars,
                   plVars, vfVars,
                   dgVars, lkVars, pwVars, envFaults>>

\* runRecv: "if some files are finished but not deleted on R2, run
\* deleteFileFunc for them" (its error is dropped)
RecvStartupDelete(n) ==
    /\ rcPc = "startdel"
    /\ n \in rcStartDel
    /\ \E ok \in RecvOkChoices :
         /\ rcFaults' = Injected(ok)
         /\ DeleteRemoteFile(n, ok)
         /\ rcFailed' = (rcFailed \/ ~ok \/ DeleteRemoteErr(n, ok))
    /\ rcStartDel' = rcStartDel \ {n}
    /\ UNCHANGED <<store, cache, dest, rcUseDB, rcDeleteRemote, rcPc, rcPlan,
                   rcExisting, rcIgnored, rcFileList, rcPass, rcWork, rcDl,
                   rcDlTodo, rcEnd, rcRuns, rcPlaced, rcLingering, rcCtxVars,
                   rcTry, rcErrored, mvVars, sdVars, plVars, vfVars, dgVars,
                   lkVars,
                   pwVars, envFaults>>

\* rclone.CopyFiles: the objects sync.CopyDir transfers.  InjectFileList
\* adds one files-from entry per name; with no name the filter holds no
\* file list and lets every object of the bucket through.
CopyFiles(files) ==
    IF files = {} THEN {n \in AllNames : bucket[n].exists} ELSE files

\* runRecv: build fileList, start rclone.CopyFiles in a goroutine and enter
\* the main loop
RecvStartDownload ==
    /\ rcPc = "startdel"
    /\ rcStartDel = {}
    /\ rcFileList' = BuildFileList(rcExisting, rcIgnored, rcPlan)
    /\ rcDlTodo' = CopyFiles(BuildFileList(rcExisting, rcIgnored, rcPlan))
    /\ rcDl' = "running"
    /\ rcTry' = 1
    /\ rcErrored' = FALSE
    /\ rcPc' = "scan"
    /\ rcPass' = "loop"
    /\ UNCHANGED <<rcFaults, worldVars, rcUseDB, rcDeleteRemote, rcPlan,
                   rcExisting,
                   rcIgnored, rcStartDel, rcWork, rcEnd, rcHistVars,
                   rcCtxVars, mvVars, sdVars, plVars, vfVars, dgVars,
                   lkVars, pwVars, envFaults>>

\* rclone.CopyFiles: the cache file is created and filled in place
DownloadBegin(n) ==
    /\ rcDl = "running"
    /\ n \in rcDlTodo
    /\ n \in Names
    /\ bucket[n].exists
    /\ cache[n] # RegFile(bucket[n].data)
    /\ cache[n] # RegFile(<<>>)
    /\ cache' = [cache EXCEPT ![n] = RegFile(<<>>)]
    /\ UNCHANGED <<bucket, store, dest, rcVars, mvVars, sdVars, plVars, vfVars,
                   dgVars, lkVars, pwVars, envFaults>>

\* the transfer of an object under a name no task has is one step: no step
\* of the receiver reads such a cache file (scanDownloadedFiles skips it)
DownloadFinish(n) ==
    /\ rcDl = "running"
    /\ n \in rcDlTodo
    /\ bucket[n].exists
    /\ cache[n] # RegFile(bucket[n].data)
    /\ cache[n] = RegFile(<<>>) \/ n \notin Names
    /\ cache' = [cache EXCEPT ![n] = RegFile(bucket[n].data)]
    /\ rcDlTodo' = rcDlTodo \ {n}
    /\ rcPending' = IF n \in rcPlan /\ FileSize(bucket[n]) = TaskSize(n)
                    THEN rcPending \cup {n} ELSE rcPending
    /\ UNCHANGED <<bucket, store, dest, rcUseDB, rcDeleteRemote, rcPc, rcPlan,
                   rcExisting, rcIgnored, rcStartDel, rcFileList, rcPass,
                   rcWork, rcDl, rcEnd, rcHistVars, rcCancelled, rcLocal,
                   rcMoveFailed, rcEnvVars, mvVars, sdVars, plVars, vfVars,
                   dgVars,
                   lkVars, pwVars, envFaults>>

\* rclone.CopyFiles: sync.CopyDir leaves a name alone when the bucket has
\* no object under it or the cache already holds the same file
DownloadSkip(n) ==
    /\ rcDl = "running"
    /\ n \in rcDlTodo
    /\ ~bucket[n].exists \/ cache[n] = RegFile(bucket[n].data)
    /\ rcDlTodo' = rcDlTodo \ {n}
    /\ UNCHANGED <<worldVars, rcProcVarsButTodo, rcHistVars, rcCtxVars,
                   rcEnvVars, mvVars, sdVars, plVars, vfVars, dgVars, lkVars,
                   pwVars, envFaults>>

\* rclone.CopyFiles: a transfer fails (object gone, network error) and the
\* error is counted
DownloadFail(n) ==
    /\ rcDl = "running"
    /\ n \in rcDlTodo
    /\ FaultsLeft
    /\ rcFaults' = rcFaults + 1
    /\ rcDlTodo' = rcDlTodo \ {n}
    /\ rcFailed' = TRUE
    /\ rcErrored' = TRUE
    /\ UNCHANGED <<worldVars, rcProcVarsButTodo, rcRuns, rcPlaced,
                   rcDelIssued, rcDeleted, rcRunDel, rcLingering, rcCtxVars,
                   rcTry, mvVars, sdVars, plVars, vfVars, dgVars, lkVars,
                   pwVars, envFaults>>

\* rclone.Run: whether the loop calls CopyFiles again (an error was
\* counted, it is neither fatal nor beyond retrying, and tries are left)
RetryChoices(try, errored) ==
    IF errored /\ try < Min(Retries, MaxTries) THEN BOOLEAN ELSE {FALSE}

\* rclone.Run: CopyFiles has returned.  Either the errors are reset and
\* CopyFiles runs again with the same list, or the loop is left and the
\* download goroutine sends on downloadDone
DownloadDone ==
    /\ rcDl = "running"
    /\ rcDlTodo = {}
    /\ \E retry \in RetryChoices(rcTry, rcErrored) :
         IF retry
         THEN /\ rcTry' = rcTry + 1
              /\ rcDlTodo' = CopyFiles(rcFileList)
              /\ UNCHANGED rcDl
         ELSE /\ rcDl' = "done"
              /\ rcTry' = 0
              /\ UNCHANGED rcDlTodo
    /\ rcErrored' = FALSE
    /\ UNCHANGED <<rcFaults, worldVars, rcUseDB, rcDeleteRemote, rcPc, rcPlan,
                   rcExisting, rcIgnored, rcStartDel, rcFileList, rcPass,
                   rcWork, rcEnd, rcHistVars, rcCtxVars, mvVars,
                   sdVars, plVars, vfVars, dgVars, lkVars, pwVars, envFaults>>

\* the receiver process is killed between two steps (a kill counts as one
\* of the failures of the behaviour)
RecvCrash ==
    /\ rcPc # "stopped"
    /\ FaultsLeft
    /\ rcFaults' = rcFaults + 1
    /\ rcPc' = "stopped"
    /\ rcEnd' = "crashed"
    /\ RunLocalReset
    /\ rcTry' = 0
    /\ rcErrored' = FALSE
    /\ UNCHANGED <<worldVars, rcUseDB, rcDeleteRemote, rcHistVars,
                   rcCancelled, rcMoveFailed, rcPending, mvVars, sdVars,
                   plVars, vfVars, dgVars, lkVars, pwVars, envFaults>>

\* an interrupt or termination signal reaches the receiver: runRecv
\* registers no handler and hands its cancel function to nobody, so the
\* signal ends the process where it is and the context is never cancelled
RecvInterrupt ==
    /\ rcPc # "stopped"
    /\ rcPc' = "stopped"
    /\ rcEnd' = "interrupted"
    /\ RunLocalReset
    /\ rcTry' = 0
    /\ rcErrored' = FALSE
    /\ UNCHANGED <<rcFaults, worldVars, rcUseDB, rcDeleteRemote, rcHistVars,
                   rcCancelled, rcMoveFailed, rcPending, mvVars, sdVars,
                   plVars, vfVars, dgVars, lkVars, pwVars, envFaults>>

\* The receiver alone with I/O failures, kills and re-runs, on a bucket and
\* a store left by a sender.  A behaviour has at most MaxFaults failures or
\* kills, MaxRuns runs, and MaxTries tries of rclone.Run in a run.
InitRecv ==
    /\ mvSrc = NoFile /\ mvDst = NoFile /\ mvCall = NoCall
    /\ bucket \in [AllNames -> {NoFile, RegFile(<<1>>), RegFile(<<1, 0>>)}]
    /\ FileSize(bucket[TaskB]) <= 1
    /\ FileSize(bucket[Foreign]) <= 1
    /\ store \in [Names -> {Uploading, Uploaded}]
    /\ store[TaskB] = Uploaded
    /\ cache = [n \in AllNames |-> NoFile]
    /\ dest = [n \in Names |-> DestBefore(n)]
    /\ rcUseDB \in BOOLEAN
    /\ rcDeleteRemote \in BOOLEAN
    /\ rcPc = "stopped"
    /\ rcPlan = {}
    /\ rcExisting = NoneListed
    /\ rcIgnored = {}
    /\ rcStartDel = {}
    /\ rcFileList = {}
    /\ rcPass = "none"
    /\ rcWork = AllIdle
    /\ rcDl = "off"
    /\ rcDlTodo = {}
    /\ rcEnd = "none"
    /\ rcRuns = 0
    /\ rcPlaced = ZeroCount
    /\ rcDelIssued = ZeroCount
    /\ rcDeleted = ZeroCount
    /\ rcRunDel = {}
    /\ rcLingering = {}
    /\ rcFailed = FALSE
    /\ rcCancelled = FALSE
    /\ rcLocal = [empty |-> FALSE, broke |-> FALSE, errs |-> FALSE,
                 scanErr |-> FALSE, skipped |-> {}]
    /\ rcMoveFailed = {}
    /\ rcPending = {}
    /\ rcTry = 0
    /\ rcErrored = FALSE
    /\ rcFaults = 0
    /\ SendIdle
    /\ PlanIdle
    /\ VfsIdle
    /\ DigestIdle
    /\ LockIdle
    /\ PoolIdle
    /\ envFaults = TRUE

\* the main goroutine of the receiver, but for the timer of its wait
RecvMainNoTimer ==
    \/ RecvStart
    \/ RecvList
    \/ PassScan
    \/ \E n \in Names : PassDispatch(n)
    \/ PassEnd
    \/ RecvLoadIgnored
    \/ \E n \in Names : RecvStartupDelete(n)
    \/ RecvStartDownload

\* the main goroutine of the receiver
RecvMain == RecvMainNoTimer \/ RecvWake

\* the onFileTransferred goroutines of a pass
RecvWorkers ==
    \/ \E n \in Names : WorkerCheck(n)
    \/ \E n \in Names : WorkerMove(n)
    \/ \E n \in Names : WorkerLock(n)
    \/ \E n \in Names : WorkerCopy(n)
    \/ \E n \in Names : WorkerRemove(n)
    \/ \E n \in Names : WorkerUpdate(n)
    \/ \E n \in Names : WorkerDelete(n)

\* the download goroutine
RecvDownloader ==
    \/ \E n \in Names : DownloadBegin(n)
    \/ \E n \in AllNames : DownloadFinish(n)
    \/ \E n \in AllNames : DownloadSkip(n)
    \/ DownloadDone

RecvStep == RecvMain \/ RecvWorkers \/ RecvDownloader

NextRecv ==
    \/ RecvStep
    \/ \E n \in AllNames : DownloadFail(n)
    \/ RecvCrash

SpecRecv == InitRecv /\ [][NextRecv]_vars

\* The destination file of a task once its window has been placed
Placed(n) == RegFile(DestBefore(n).data \o WindowData(n))

\* The receiver without crashes and without I/O failures, started in any
\* state a previous run can have left: each task is either fresh (possibly
\* with its download already in the cache) or retired (placed and recorded
\* as downloaded, its object possibly still in the bucket).  Each goroutine
\* is scheduled fairly.
InitRecvLive ==
    /\ mvSrc = NoFile /\ mvDst = NoFile /\ mvCall = NoCall
    /\ bucket \in [AllNames -> {NoFile, RegFile(<<1>>), RegFile(<<1, 0>>)}]
    /\ store \in [Names -> {Uploading, Uploaded, Downloaded}]
    /\ cache \in [AllNames -> {NoFile, RegFile(<<1>>)}]
    /\ cache[Foreign] = NoFile
    /\ dest = [n \in Names |->
                 IF store[n] = Downloaded THEN Placed(n) ELSE DestBefore(n)]
    /\ \A n \in Names : store[n] = Downloaded => ~cache[n].exists
    /\ rcUseDB \in BOOLEAN
    /\ rcDeleteRemote \in BOOLEAN
    /\ (\E n \in Names : store[n] = Downloaded) => rcUseDB
    /\ rcPc = "stopped"
    /\ rcPlan = {}
    /\ rcExisting = NoneListed
    /\ rcIgnored = {}
    /\ rcStartDel = {}
    /\ rcFileList = {}
    /\ rcPass = "none"
    /\ rcWork = AllIdle
    /\ rcDl = "off"
    /\ rcDlTodo = {}
    /\ rcEnd = "none"
    /\ rcRuns = 0
    /\ rcPlaced = ZeroCount
    /\ rcDelIssued = ZeroCount
    /\ rcDeleted = ZeroCount
    /\ rcRunDel = {}
    /\ rcLingering = {}
    /\ rcFailed = FALSE
    /\ rcCancelled = FALSE
    /\ rcLocal = [empty |-> FALSE, broke |-> FALSE, errs |-> FALSE,
                 scanErr |-> FALSE, skipped |-> {}]
    /\ rcMoveFailed = {}
    /\ rcPending = {}
    /\ rcTry = 0
    /\ rcErrored = FALSE
    /\ rcFaults = 0
    /\ SendIdle
    /\ PlanIdle
    /\ VfsIdle
    /\ DigestIdle
    /\ LockIdle
    /\ PoolIdle
    /\ envFaults = FALSE

SpecRecvLive ==
    /\ InitRecvLive
    /\ [][RecvStep]_vars
    /\ WF_vars(RecvMain)
    /\ WF_vars(RecvWorkers)
    /\ WF_vars(RecvDownloader)

\* One receiver run without I/O failures, started with any files in the
\* cache directory, whose process a signal may end at any moment.  The
\* goroutines are scheduled fairly; the timer of the wait between two passes
\* is not.
InitRecvCtx ==
    /\ mvSrc = NoFile /\ mvDst = NoFile /\ mvCall = NoCall
    /\ bucket \in [AllNames -> {NoFile, RegFile(<<1>>)}]
    /\ store \in [Names -> {Uploaded, Downloaded}]
    /\ cache \in [AllNames -> {NoFile, RegFile(<<1>>), RegFile(<<1, 0>>)}]
    /\ dest = [n \in Names |->
                 IF store[n] = Downloaded THEN Placed(n) ELSE DestBefore(n)]
    /\ rcUseDB \in BOOLEAN
    /\ rcDeleteRemote \in BOOLEAN
    /\ (\E n \in Names : store[n] = Downloaded) => rcUseDB
    /\ rcPc = "stopped"
    /\ rcPlan = {}
    /\ rcExisting = NoneListed
    /\ rcIgnored = {}
    /\ rcStartDel = {}
    /\ rcFileList = {}
    /\ rcPass = "none"
    /\ rcWork = AllIdle
    /\ rcDl = "off"
    /\ rcDlTodo = {}
    /\ rcEnd = "none"
    /\ rcRuns = MaxRuns - 1
    /\ rcPlaced = ZeroCount
    /\ rcDelIssued = ZeroCount
    /\ rcDeleted = ZeroCount
    /\ rcRunDel = {}
    /\ rcLingering = {}
    /\ rcFailed = FALSE
    /\ rcCancelled = FALSE
    /\ rcLocal = NoLocal
    /\ rcMoveFailed = {}
    /\ rcPending = {}
    /\ rcTry = 0
    /\ rcErrored = FALSE
    /\ rcFaults = 0
    /\ SendIdle
    /\ PlanIdle
    /\ VfsIdle
    /\ DigestIdle
    /\ LockIdle
    /\ PoolIdle
    /\ envFaults = FALSE

NextRecvCtx ==
    \/ RecvStep
    \/ RecvInterrupt

SpecRecvCtx ==
    /\ InitRecvCtx
    /\ [][NextRecvCtx]_vars
    /\ WF_vars(RecvMainNoTimer)
    /\ WF_vars(RecvWorkers)
    /\ WF_vars(RecvDownloader)

\* processDoneFiles(ctx, tasksMap, finishedCallback): the context is a
\* parameter of the function, and its Done channel can become ready at any
\* moment of a call.  runRecv, the only caller, hands in a context that
\* nothing cancels before runRecv returns (context.WithCancel with a
\* deferred cancel, no signal handler), so no run of the receiver takes
\* this step; it belongs to SpecPass alone.
CtxDone ==
    /\ rcPc \in {"scan", "pass"}
    /\ ~rcCancelled
    /\ rcCancelled' = TRUE
    /\ UNCHANGED <<worldVars, rcProcVars, rcHistVars, rcLocal, rcMoveFailed,
                   rcPending, rcEnvVars, mvVars, sdVars, plVars, vfVars,
                   dgVars, lkVars, pwVars, envFaults>>

\* One call of processDoneFiles without I/O failures, the one runRecv makes
\* before it starts the downloader, with any files in the cache directory
\* and under a context that is done from the start or becomes done during
\* the call.  The behaviour ends when the call has returned.
InitPass ==
    /\ mvSrc = NoFile /\ mvDst = NoFile /\ mvCall = NoCall
    /\ bucket \in [AllNames -> {NoFile, RegFile(<<1>>)}]
    /\ store \in [Names -> {Uploaded, Downloaded}]
    /\ cache \in [AllNames -> {NoFile, RegFile(<<1>>), RegFile(<<1, 0>>)}]
    /\ dest = [n \in Names |->
                 IF store[n] = Downloaded THEN Placed(n) ELSE DestBefore(n)]
    /\ rcUseDB \in BOOLEAN
    /\ rcDeleteRemote \in BOOLEAN
    /\ (\E n \in Names : store[n] = Downloaded) => rcUseDB
    /\ rcPc = "scan"
    /\ rcPlan = GenerateTasks(rcUseDB)
    /\ rcPlan # {}
    /\ rcExisting = ListFiles
    /\ rcIgnored = {}
    /\ rcStartDel = {}
    /\ rcFileList = {}
    /\ rcPass = "init"
    /\ rcWork = AllIdle
    /\ rcDl = "off"
    /\ rcDlTodo = {}
    /\ rcEnd = "none"
    /\ rcRuns = MaxRuns
    /\ rcPlaced = ZeroCount
    /\ rcDelIssued = ZeroCount
    /\ rcDeleted = ZeroCount
    /\ rcRunDel = {}
    /\ rcLingering = {n \in Names : store[n] = Downloaded /\ bucket[n].exists}
    /\ rcFailed = FALSE
    /\ rcCancelled \in BOOLEAN
    /\ rcLocal = NoLocal
    /\ rcMoveFailed = {}
    /\ rcPending = {}
    /\ rcTry = 0
    /\ rcErrored = FALSE
    /\ rcFaults = 0
    /\ SendIdle
    /\ PlanIdle
    /\ VfsIdle
    /\ DigestIdle
    /\ LockIdle
    /\ PoolIdle
    /\ envFaults = FALSE

NextPass ==
    \/ PassScan
    \/ \E n \in Names : PassDispatch(n)
    \/ RecvWorkers
    \/ PassEnd
    \/ CtxDone

SpecPass == InitPass /\ [][NextPass]_vars

----------------------------------------------------------------------------
(* Sender: cmd/send.go, runSend *)

\* WocSyncTask.TargetDigest: nil for a full-copy task, the destination
\* file's digest for a partial one
TargetDigestIsNil(n) == n # TaskB

\* Mutant: the status loop runs whatever the uploader reported
AfterUploadIgnoringError(up) == "mark"

\* runSend, "case err := <-uploadDone": an error returns, nil goes on to
\* the status loop
AfterUpload(up) == IF up = "ok" THEN "mark" ELSE "finishing"

\* db.UpdateTask: an upsert on virtual_path that replaces every column
UpdateTask(n, status) == [store EXCEPT ![n] = status]

\* db.CreateTask: a plain insert, refused when virtual_path is taken
CreateTask(n, status) ==
    IF store[n] # NoRecord THEN store ELSE [store EXCEPT ![n] = status]

\* db.GetTask: the visible row of the path, or an error
GetTaskErr(n) == store[n] \in {NoRecord, Deleted}

\* db.DeleteTask: the visible row of the path, if any, is deleted
DeleteTask(n) ==
    IF GetTaskErr(n) THEN store ELSE [store EXCEPT ![n] = Deleted]

\* sendCmd.Run: connectDB, generateTasks, then runSend unless the plan is
\* empty
SendStart ==
    /\ sdPc = "stopped"
    /\ sdEnd = "none"
    /\ IF GenerateTasks(sdUseDB) = {}
       THEN /\ sdEnd' = "skipped"
            /\ UNCHANGED <<sdPc, sdPlan, sdUpsertTodo>>
       ELSE /\ sdPc' = "upsert"
            /\ sdPlan' = GenerateTasks(sdUseDB)
            /\ sdUpsertTodo' = IF sdUseDB THEN GenerateTasks(sdUseDB) ELSE {}
            /\ UNCHANGED sdEnd
    /\ UNCHANGED <<worldVars, sdUseDB, sdMount, sdTryVars, sdUp, sdUpTodo,
                   sdMarkTodo, sdChecked,
                   sdCancelled, sdHistVars, rcVars, mvVars, plVars, vfVars,
                   dgVars, lkVars, pwVars, envFaults>>

\* runSend step 1: dbHandle.UpdateTask(Status: db.Uploading) for one task;
\* an error returns from runSend
SendUpsert(n) ==
    /\ sdPc = "upsert"
    /\ n \in sdUpsertTodo
    /\ \E ok \in OkChoices :
         IF ok
         THEN /\ store' = UpdateTask(n, Uploading)
              /\ sdUpsertTodo' = sdUpsertTodo \ {n}
              /\ sdWroteUploading' = sdWroteUploading \cup {n}
              /\ UNCHANGED <<sdPc, sdEnd>>
         ELSE /\ sdPc' = "stopped"
              /\ sdEnd' = "error"
              /\ sdUpsertTodo' = {}
              /\ UNCHANGED <<store, sdWroteUploading>>
    /\ UNCHANGED <<bucket, cache, dest, sdUseDB, sdMount, sdTryVars, sdPlan,
                   sdUp, sdUpTodo,
                   sdMarkTodo, sdChecked, sdCancelled, sdWroteUploaded, sdLate,
                   rcVars, mvVars, plVars, vfVars, dgVars, lkVars, pwVars,
                   envFaults>>

\* runSend step 2: os.MkdirAll of a missing mountpoint (an error returns
\* from runSend, after the rows of step 1 were written); then the mount
\* goroutine is started and the main thread sleeps for a second
SendMount ==
    /\ sdPc = "upsert"
    /\ sdUpsertTodo = {}
    /\ \E dirOk \in OkChoices :
         IF ~dirOk
         THEN /\ sdPc' = "stopped"
              /\ sdEnd' = "error"
              /\ UNCHANGED sdMount
         ELSE /\ sdPc' = "sleep"
              /\ sdMount' = "mounting"
              /\ UNCHANGED sdEnd
    /\ UNCHANGED <<worldVars, sdUseDB, sdTryVars, sdPlan, sdUpsertTodo, sdUp,
                   sdUpTodo,
                   sdMarkTodo, sdChecked, sdCancelled, sdHistVars,
                   rcVars, mvVars, plVars, vfVars, dgVars, lkVars, pwVars,
                   envFaults>>

\* the mount goroutine: host.Mount has the file system mounted, or fails
\* and the goroutine returns.  Nothing waits for it.
MountDone ==
    /\ sdMount = "mounting"
    /\ sdPc # "stopped"
    /\ \E mounted \in OkChoices :
         sdMount' = IF mounted THEN "mounted" ELSE "failed"
    /\ UNCHANGED <<worldVars, sdUseDB, sdTryVars, sdPc, sdPlan, sdUpsertTodo,
                   sdUp,
                   sdUpTodo, sdMarkTodo, sdChecked, sdCancelled, sdEnd,
                   sdHistVars, rcVars, mvVars, plVars, vfVars, dgVars,
                   lkVars, pwVars, envFaults>>

\* the sleep is over: signal.Notify, then the signal goroutine and the
\* task goroutine are started, whatever the mount goroutine has done
SendNotify ==
    /\ sdPc = "sleep"
    /\ sdPc' = "prepare"
    /\ UNCHANGED <<worldVars, sdUseDB, sdMount, sdTryVars, sdPlan,
                   sdUpsertTodo, sdUp,
                   sdUpTodo, sdMarkTodo, sdChecked, sdCancelled, sdEnd,
                   sdHistVars, rcVars, mvVars, plVars, vfVars, dgVars,
                   lkVars, pwVars, envFaults>>

\* a signal before signal.Notify (during step 1 or the sleep after the
\* mount goroutine is started) has its default effect: the process dies
SendKilled ==
    /\ sdPc \in {"upsert", "sleep"}
    /\ sdPc' = "stopped"
    /\ sdEnd' = "killed"
    /\ sdUpsertTodo' = {}
    /\ sdMount' = "off"
    /\ UNCHANGED <<worldVars, sdUseDB, sdTryVars, sdPlan, sdUp, sdUpTodo,
                   sdMarkTodo, sdChecked, sdCancelled, sdHistVars,
                   rcVars, mvVars, plVars, vfVars, dgVars, lkVars, pwVars,
                   envFaults>>

\* task goroutine: NewR2Backend, fs.NewFs and the two ctx.Done checks, then
\* the uploader goroutine is started with rclone.Run
SendPrepare ==
    /\ sdPc = "prepare"
    /\ \E ok \in OkChoices :
         IF sdCancelled
         THEN /\ sdPc' = "finishing" /\ sdEnd' = "cancelled"
              /\ UNCHANGED <<sdUp, sdUpTodo, sdTry>>
         ELSE IF ~ok
         THEN /\ sdPc' = "finishing" /\ sdEnd' = "prepare-failed"
              /\ UNCHANGED <<sdUp, sdUpTodo, sdTry>>
         ELSE /\ sdPc' = "wait"
              /\ sdUp' = "running"
              /\ sdUpTodo' = sdPlan
              /\ sdTry' = 1
              /\ UNCHANGED sdEnd
    /\ UNCHANGED <<worldVars, sdUseDB, sdMount, sdErrored, sdPlan,
                   sdUpsertTodo, sdMarkTodo, sdChecked, sdCancelled,
                   sdHistVars, rcVars, mvVars, plVars, vfVars, dgVars,
                   lkVars, pwVars, envFaults>>

\* rclone.CopyFiles on the mounted windows: one object is written, or its
\* transfer fails and the error is counted
UploadFile(n) ==
    /\ sdUp = "running"
    /\ sdPc \in {"wait", "finishing"}
    /\ n \in sdUpTodo
    /\ ~sdCancelled
    /\ sdMount = "mounted"
    /\ \E ok \in OkChoices :
         /\ bucket' = IF ok THEN [bucket EXCEPT ![n] = RegFile(WindowData(n))]
                             ELSE bucket
         /\ sdErrored' = (sdErrored \/ ~ok)
    /\ sdUpTodo' = sdUpTodo \ {n}
    /\ UNCHANGED <<store, cache, dest, sdUseDB, sdMount, sdTry, sdPc, sdPlan,
                   sdUpsertTodo, sdUp, sdMarkTodo, sdChecked, sdCancelled,
                   sdEnd, sdHistVars, rcVars, mvVars, plVars, vfVars, dgVars,
                   lkVars, pwVars, envFaults>>

\* rclone.CopyFiles while the mountpoint is still (or for good) a plain
\* empty directory: a listed file that is not found is left out
UploadSkip(n) ==
    /\ sdUp = "running"
    /\ sdPc \in {"wait", "finishing"}
    /\ n \in sdUpTodo
    /\ ~sdCancelled
    /\ sdMount # "mounted"
    /\ sdUpTodo' = sdUpTodo \ {n}
    /\ UNCHANGED <<worldVars, sdUseDB, sdMount, sdTryVars, sdPc, sdPlan,
                   sdUpsertTodo,
                   sdUp, sdMarkTodo, sdChecked, sdCancelled, sdEnd,
                   sdHistVars, rcVars, mvVars, plVars, vfVars, dgVars,
                   lkVars, pwVars, envFaults>>

\* rclone.Run in the uploader goroutine: CopyFiles has gone through the
\* list.  With an error counted either the errors are reset and CopyFiles
\* runs again with the same list, or the loop is left; the goroutine sends
\* the result on uploadDone (nil when rclone copied the files it found)
UploadReturn ==
    /\ sdUp = "running"
    /\ sdPc \in {"wait", "finishing"}
    /\ sdUpTodo = {}
    /\ \E retry \in RetryChoices(sdTry, sdErrored) :
         IF retry
         THEN /\ sdTry' = sdTry + 1
              /\ sdUpTodo' = sdPlan
              /\ UNCHANGED sdUp
         ELSE /\ sdUp' = IF sdErrored THEN "err" ELSE "ok"
              /\ sdTry' = 0
              /\ UNCHANGED sdUpTodo
    /\ sdErrored' = FALSE
    /\ UNCHANGED <<worldVars, sdUseDB, sdMount, sdPc, sdPlan, sdUpsertTodo,
                   sdMarkTodo, sdChecked, sdCancelled, sdEnd, sdHistVars,
                   rcVars, mvVars, plVars, vfVars, dgVars, lkVars, pwVars,
                   envFaults>>

\* the uploader goroutine sends an error on uploadDone at once: a fatal
\* error, or the context was cancelled and the mount is gone
UploadErr ==
    /\ sdUp = "running"
    /\ sdPc \in {"wait", "finishing"}
    /\ envFaults \/ sdCancelled
    /\ sdUp' = "err"
    /\ UNCHANGED <<worldVars, sdUseDB, sdMount, sdTryVars, sdPc, sdPlan,
                   sdUpsertTodo, sdUpTodo,
                   sdMarkTodo, sdChecked, sdCancelled, sdEnd, sdHistVars,
                   rcVars, mvVars, plVars, vfVars, dgVars, lkVars, pwVars,
                   envFaults>>

\* task goroutine, select: "case err := <-uploadDone"
SendUploadDone ==
    /\ sdPc = "wait"
    /\ sdUp \in {"ok", "err"}
    /\ sdPc' = AfterUpload(sdUp)
    /\ IF AfterUpload(sdUp) = "mark"
       THEN /\ sdMarkTodo' = IF sdUseDB THEN sdPlan ELSE {}
            /\ UNCHANGED sdEnd
       ELSE /\ sdEnd' = "upload-failed"
            /\ UNCHANGED sdMarkTodo
    /\ UNCHANGED <<worldVars, sdUseDB, sdMount, sdTryVars, sdPlan,
                   sdUpsertTodo, sdUp, sdUpTodo,
                   sdChecked, sdCancelled, sdHistVars, rcVars, mvVars,
                   plVars, vfVars, dgVars, lkVars, pwVars, envFaults>>

\* task goroutine, select: "case <-ctx.Done()"
SendUploadCancelled ==
    /\ sdPc = "wait"
    /\ sdCancelled
    /\ sdPc' = "finishing"
    /\ sdEnd' = "cancelled"
    /\ UNCHANGED <<worldVars, sdUseDB, sdMount, sdTryVars, sdPlan,
                   sdUpsertTodo, sdUp, sdUpTodo,
                   sdMarkTodo, sdChecked, sdCancelled, sdHistVars, rcVars,
                   mvVars, plVars, vfVars, dgVars, lkVars, pwVars, envFaults>>

\* status loop, head of an iteration: the non-blocking ctx.Done check
SendMarkCheck(n) ==
    /\ sdPc = "mark"
    /\ sdChecked = NoName
    /\ n \in sdMarkTodo
    /\ IF sdCancelled
       THEN /\ sdPc' = "finishing" /\ sdEnd' = "cancelled"
            /\ UNCHANGED sdChecked
       ELSE /\ sdChecked' = n
            /\ UNCHANGED <<sdPc, sdEnd>>
    /\ UNCHANGED <<worldVars, sdUseDB, sdMount, sdTryVars, sdPlan,
                   sdUpsertTodo, sdUp, sdUpTodo,
                   sdMarkTodo, sdCancelled, sdHistVars, rcVars, mvVars,
                   plVars, vfVars, dgVars, lkVars, pwVars, envFaults>>

\* status loop, rest of the iteration: the db.Task literal dereferences
\* task.TargetDigest (a nil pointer panics and ends the process), then
\* dbHandle.UpdateTask(Status: db.Uploaded), whose error is only logged
SendMarkWrite(n) ==
    /\ sdPc = "mark"
    /\ sdChecked = n
    /\ n \in sdMarkTodo
    /\ sdChecked' = NoName
    /\ IF TargetDigestIsNil(n)
       THEN /\ sdPc' = "stopped" /\ sdEnd' = "panic"
            /\ sdMarkTodo' = {}
            /\ UNCHANGED <<store, sdWroteUploaded, sdLate>>
       ELSE /\ sdMarkTodo' = sdMarkTodo \ {n}
            /\ UNCHANGED <<sdPc, sdEnd>>
            /\ \E ok \in OkChoices :
                 IF ok
                 THEN /\ store' = UpdateTask(n, Uploaded)
                      /\ sdWroteUploaded' = sdWroteUploaded \cup {n}
                      /\ sdLate' = IF sdCancelled THEN sdLate \cup {n}
                                                  ELSE sdLate
                 ELSE UNCHANGED <<store, sdWroteUploaded, sdLate>>
    /\ UNCHANGED <<bucket, cache, dest, sdUseDB, sdMount, sdTryVars, sdPlan,
                   sdUpsertTodo, sdUp,
                   sdUpTodo, sdCancelled, sdWroteUploading, rcVars, mvVars,
                   plVars, vfVars, dgVars, lkVars, pwVars, envFaults>>

\* status loop exhausted: "Sync tasks completed successfully"
SendMarkDone ==
    /\ sdPc = "mark"
    /\ sdMarkTodo = {}
    /\ sdPc' = "finishing"
    /\ sdEnd' = "completed"
    /\ UNCHANGED <<worldVars, sdUseDB, sdMount, sdTryVars, sdPlan,
                   sdUpsertTodo, sdUp, sdUpTodo,
                   sdMarkTodo, sdChecked, sdCancelled, sdHistVars, rcVars,
                   mvVars, plVars, vfVars, dgVars, lkVars, pwVars, envFaults>>

\* the task goroutine returns: taskDone, cancel, unmount; runSend returns
\* once the mount goroutine is back from host.Mount
SendFinish ==
    /\ sdPc = "finishing"
    /\ sdMount # "mounting"
    /\ sdPc' = "stopped"
    /\ UNCHANGED <<worldVars, sdUseDB, sdMount, sdTryVars, sdPlan,
                   sdUpsertTodo, sdUp, sdUpTodo,
                   sdMarkTodo, sdChecked, sdCancelled, sdEnd, sdHistVars,
                   rcVars, mvVars, plVars, vfVars, dgVars, lkVars, pwVars,
                   envFaults>>

\* the signal goroutine: a signal arrives on sigChan and cancel() is called
SendSignal ==
    /\ sdPc \in {"prepare", "wait", "mark", "finishing"}
    /\ ~sdCancelled
    /\ sdCancelled' = TRUE
    /\ UNCHANGED <<worldVars, sdUseDB, sdMount, sdTryVars, sdPc, sdPlan,
                   sdUpsertTodo, sdUp,
                   sdUpTodo, sdMarkTodo, sdChecked, sdEnd, sdHistVars, rcVars,
                   mvVars, plVars, vfVars, dgVars, lkVars, pwVars, envFaults>>

\* the mount goroutine returns (after the cancellation it unmounts; when
\* host.Mount failed it returns at once), mountWg.Wait returns, runSend
\* returns nil and the process exits, wherever the task goroutine is
SendExit ==
    /\ (sdCancelled /\ sdMount = "mounted") \/ sdMount = "failed"
    /\ sdPc \in {"prepare", "wait", "mark"}
    /\ sdPc' = "stopped"
    /\ sdEnd' = IF sdCancelled THEN "cancelled" ELSE "mount-failed"
    /\ sdChecked' = NoName
    /\ UNCHANGED <<worldVars, sdUseDB, sdMount, sdTryVars, sdPlan,
                   sdUpsertTodo, sdUp, sdUpTodo,
                   sdMarkTodo, sdCancelled, sdHistVars, rcVars, mvVars,
                   plVars, vfVars, dgVars, lkVars, pwVars, envFaults>>

SendMain ==
    \/ SendStart
    \/ \E n \in Names : SendUpsert(n)
    \/ SendMount
    \/ SendNotify

SendTask ==
    \/ SendPrepare
    \/ SendUploadDone
    \/ SendUploadCancelled
    \/ \E n \in Names : SendMarkCheck(n)
    \/ \E n \in Names : SendMarkWrite(n)
    \/ SendMarkDone
    \/ SendFinish

SendUploader ==
    \/ \E n \in Names : UploadFile(n)
    \/ \E n \in Names : UploadSkip(n)
    \/ UploadReturn
    \/ UploadErr

SendStep ==
    SendMain \/ MountDone \/ SendTask \/ SendUploader \/ SendSignal \/ SendExit

\* The sender alone, on a store left by earlier runs
InitSend ==
    /\ mvSrc = NoFile /\ mvDst = NoFile /\ mvCall = NoCall
    /\ bucket = [n \in AllNames |-> NoFile]
    /\ store \in [Names -> {NoRecord, Uploading, Uploaded, Downloaded}]
    /\ cache = [n \in AllNames |-> NoFile]
    /\ dest = [n \in Names |-> DestBefore(n)]
    /\ RecvIdle
    /\ sdUseDB \in BOOLEAN
    /\ sdPc = "stopped"
    /\ sdPlan = {}
    /\ sdUpsertTodo = {}
    /\ sdUp = "off"
    /\ sdUpTodo = {}
    /\ sdMarkTodo = {}
    /\ sdChecked = NoName
    /\ sdCancelled = FALSE
    /\ sdMount = "off"
    /\ sdTry = 0
    /\ sdErrored = FALSE
    /\ sdEnd = "none"
    /\ sdWroteUploading = {}
    /\ sdWroteUploaded = {}
    /\ sdLate = {}
    /\ PlanIdle
    /\ VfsIdle
    /\ DigestIdle
    /\ LockIdle
    /\ PoolIdle
    /\ envFaults = TRUE

NextSend == SendStep \/ SendKilled

SpecSend == InitSend /\ [][NextSend]_vars

\* The task store alone, driven through db.DB's methods as the package's
\* tests drive it
StoreCreate(n, status) ==
    /\ store' = CreateTask(n, status)
    /\ UNCHANGED <<bucket, cache, dest, mvVars, rcVars, sdVars, plVars,
                   vfVars, dgVars, lkVars, pwVars, envFaults>>

StoreUpdate(n, status) ==
    /\ store' = UpdateTask(n, status)
    /\ UNCHANGED <<bucket, cache, dest, mvVars, rcVars, sdVars, plVars,
                   vfVars, dgVars, lkVars, pwVars, envFaults>>

StoreDelete(n) ==
    /\ store' = DeleteTask(n)
    /\ UNCHANGED <<bucket, cache, dest, mvVars, rcVars, sdVars, plVars,
                   vfVars, dgVars, lkVars, pwVars, envFaults>>

InitStore ==
    /\ mvSrc = NoFile /\ mvDst = NoFile /\ mvCall = NoCall
    /\ bucket = [n \in AllNames |-> NoFile]
    /\ store = [n \in Names |-> NoRecord]
    /\ cache = [n \in AllNames |-> NoFile]
    /\ dest = [n \in Names |-> DestBefore(n)]
    /\ RecvIdle
    /\ SendIdle
    /\ PlanIdle
    /\ VfsIdle
    /\ DigestIdle
    /\ LockIdle
    /\ PoolIdle
    /\ envFaults = FALSE

NextStore ==
    \/ \E n \in Names : StoreCreate(n, Pending)
    \/ \E n \in Names, status \in {Uploading, Uploaded, Downloaded} :
         StoreUpdate(n, status)
    \/ \E n \in Names : StoreDelete(n)

SpecStore == InitStore /\ [][NextStore]_vars

\* Sender and receiver side by side on one bucket and one task store, both
\* with the store in use, no I/O failure and no crash.  A task is new or
\* was retired by an earlier transfer; the bucket may hold an object of
\* no task, which an earlier run may have copied into the cache.
InitSync ==
    /\ mvSrc = NoFile /\ mvDst = NoFile /\ mvCall = NoCall
    /\ bucket \in [AllNames -> {NoFile, RegFile(<<1>>)}]
    /\ \A n \in Names : bucket[n] = NoFile
    /\ store \in [Names -> {NoRecord, Downloaded}]
    /\ cache \in [AllNames -> {NoFile, RegFile(<<1>>)}]
    /\ \A n \in Names : cache[n] = NoFile
    /\ cache[Foreign] \in {NoFile, bucket[Foreign]}
    /\ dest = [n \in Names |->
                 IF store[n] = Downloaded THEN Placed(n) ELSE DestBefore(n)]
    /\ rcUseDB = TRUE
    /\ rcDeleteRemote \in BOOLEAN
    /\ rcPc = "stopped"
    /\ rcPlan = {}
    /\ rcExisting = NoneListed
    /\ rcIgnored = {}
    /\ rcStartDel = {}
    /\ rcFileList = {}
    /\ rcPass = "none"
    /\ rcWork = AllIdle
    /\ rcDl = "off"
    /\ rcDlTodo = {}
    /\ rcEnd = "none"
    /\ rcRuns = 0
    /\ rcPlaced = ZeroCount
    /\ rcDelIssued = ZeroCount
    /\ rcDeleted = ZeroCount
    /\ rcRunDel = {}
    /\ rcLingering = {}
    /\ rcFailed = FALSE
    /\ rcCancelled = FALSE
    /\ rcLocal = [empty |-> FALSE, broke |-> FALSE, errs |-> FALSE,
                 scanErr |-> FALSE, skipped |-> {}]
    /\ rcMoveFailed = {}
    /\ rcPending = {}
    /\ rcTry = 0
    /\ rcErrored = FALSE
    /\ rcFaults = 0
    /\ SendIdle
    /\ PlanIdle
    /\ VfsIdle
    /\ DigestIdle
    /\ LockIdle
    /\ PoolIdle
    /\ envFaults = FALSE

NextSync == SendStep \/ RecvStep

SpecSync == InitSync /\ [][NextSync]_vars

----------------------------------------------------------------------------
(* Claims about MoveFile, checked under SpecMove *)

MoveReturned == mvCall.done
MoveSucceeded == mvCall.done /\ mvCall.err = ""
MoveFailed == mvCall.done /\ mvCall.err # ""

\* C1: whenever MoveFile returns success, in either mode, the source file no
\* longer exists and, if an expected digest was given, the sampled digest of
\* the whole destination file equals it.
C1_SuccessPostcondition ==
    MoveSucceeded =>
        /\ ~mvSrc.exists
        /\ mvDst.exists
        /\ mvCall.exp # NoDigest =>
              /\ SampleMD5(mvDst.data, 0, 0).err = ""
              /\ SampleMD5(mvDst.data, 0, 0).digest = mvCall.exp

C1_Witness ==
    /\ MoveSucceeded
    /\ mvCall.exp # NoDigest
    /\ mvCall.mode = CopyModeOverwrite
    /\ mvCall.preSrc.data # <<>>
    /\ mvCall.preDst.data # <<>>

\* C2: after any failure return of MoveFile the destination file's size is
\* the size it had before the call (unchanged, or rolled back to it).
C2_FailureKeepsDstSize ==
    MoveFailed => FileSize(mvDst) = FileSize(mvCall.preDst)

\* C3: whenever MoveFile returns an error the source file is as it was (not
\* removed); the source is unlinked only by a call that passed the size
\* check, the byte-count check and the digest check and returned success.
C3_SourceKeptOnError ==
    /\ MoveFailed => mvSrc = mvCall.preSrc
    /\ (MoveReturned /\ mvCall.preSrc.exists /\ ~mvSrc.exists) =>
          /\ mvCall.err = ""
          /\ PreCheckSize(mvCall.mode, mvCall.expSize,
                          FileSize(OpenForWrite(mvCall.preDst, mvCall.mode))) = ""
          /\ FileSize(mvDst) =
                FileSize(OpenForWrite(mvCall.preDst, mvCall.mode))
                  + FileSize(mvCall.preSrc)
          /\ mvCall.exp # NoDigest =>
                SampleMD5(mvDst.data, 0, 0).digest = mvCall.exp

C3_Witness ==
    /\ MoveFailed
    /\ mvCall.err = "digest-postcheck-failed"
    /\ mvSrc.exists
    /\ mvSrc.data # <<>>

\* the call got a regular source file and no I/O operation failed
MoveCallClean ==
    /\ mvCall.done
    /\ mvCall.fault = "none"
    /\ mvCall.preSrc.exists
    /\ mvCall.preSrc.regular

\* C11: in append mode with a non-empty expected digest, when the digest of
\* the destination after appending differs from the expected one, MoveFile
\* returns the digest error, the destination has its pre-append content and
\* the source file is in place.
C11_AppendRollback ==
    (/\ MoveCallClean
     /\ mvCall.mode = CopyModeAppend
     /\ mvCall.exp # NoDigest
     /\ PreCheckSize(mvCall.mode, mvCall.expSize, FileSize(mvCall.preDst)) = ""
     /\ SampleMD5(mvCall.preDst.data \o mvCall.preSrc.data, 0, 0).digest
            # mvCall.exp)
    => /\ mvCall.err = "digest-postcheck-failed"
       /\ mvDst.exists
       /\ mvDst.data = mvCall.preDst.data
       /\ mvSrc = mvCall.preSrc

C11_Witness ==
    /\ MoveCallClean
    /\ mvCall.mode = CopyModeAppend
    /\ mvCall.err = "digest-postcheck-failed"
    /\ mvCall.preDst.data # <<>>
    /\ mvCall.preSrc.data # <<>>
    /\ mvDst.data = mvCall.preDst.data

\* C12: in append mode with an expected destination size >= 0 that differs
\* from the destination's size, MoveFile fails, no byte is written to the
\* destination and the source is not removed.
C12_SizeMismatchWritesNothing ==
    (/\ MoveReturned
     /\ mvCall.mode = CopyModeAppend
     /\ mvCall.expSize >= 0
     /\ FileSize(mvCall.preDst) # mvCall.expSize)
    => /\ mvCall.err # ""
       /\ mvDst.data = mvCall.preDst.data
       /\ mvSrc = mvCall.preSrc

C12_Witness ==
    /\ MoveCallClean
    /\ mvCall.err = "destination-size-precheck-failed"
    /\ mvCall.preDst.data # <<>>
    /\ mvCall.preSrc.data # <<>>
    /\ mvDst = mvCall.preDst
    /\ mvSrc = mvCall.preSrc

\* C13: in overwrite mode with a non-empty expected digest that differs from
\* the source file's digest, MoveFile fails and the destination is untouched:
\* absent if it was absent, unchanged if it existed; the source is kept.
C13_DigestMismatchLeavesDst ==
    (/\ MoveReturned
     /\ mvCall.preSrc.exists
     /\ mvCall.preSrc.regular
     /\ mvCall.mode = CopyModeOverwrite
     /\ mvCall.exp # NoDigest
     /\ SampleMD5(mvCall.preSrc.data, 0, 0).digest # mvCall.exp)
    => /\ mvCall.err # ""
       /\ mvDst = mvCall.preDst
       /\ mvSrc = mvCall.preSrc

C13_Witness ==
    /\ MoveCallClean
    /\ mvCall.err = "digest-precheck-failed"
    /\ ~mvCall.preDst.exists
    /\ ~mvDst.exists
    /\ mvCall.preSrc.data # <<>>

----------------------------------------------------------------------------
(* Claims about the receiver, checked under SpecRecv *)

\* C4: across crashes and re-runs of the receiver (task store in use, bucket
\* deletes enabled, no I/O failure, only crashes between two steps) each file is placed by at most one successful
\* MoveFile and its bucket object is deleted at most once.
C4_PlacedExactlyOnce ==
    (rcUseDB /\ rcDeleteRemote /\ ~rcFailed) => \A n \in Names : rcPlaced[n] <= 1 /\ rcDeleted[n] <= 1

\* C5: a bucket delete is issued for a name only in a state where the task
\* store records that name as downloaded, both after a reconciliation and in
\* the start-up delete loop.
C5_DeleteOnlyWhenDownloaded ==
    [][\A n \in Names :
          rcDelIssued'[n] > rcDelIssued[n] => store[n] = Downloaded]_vars

\* a start-up delete was issued for a name that this run did not reconcile
C5_Witness ==
    /\ rcPc = "startdel"
    /\ \E n \in rcLingering :
          /\ n \in rcRunDel
          /\ n \notin rcPlan
          /\ rcDelIssued[n] > 0

\* the run is past its start-up phase (the download list is built) or has
\* returned, without a crash
RunPastStartup ==
    \/ rcPc \in {"scan", "pass"} /\ rcPass \in {"loop", "final"}
    \/ rcPc = "stopped" /\ rcEnd \in {"returned", "skipped"}

\* C6: if a record is downloaded and its object is still in the bucket when
\* the receiver starts, that run (with bucket deletes enabled and no failure)
\* issues a bucket delete for it and keeps it off the download list.
C6_LingeringObjectDeleted ==
    (rcDeleteRemote /\ ~rcFailed /\ RunPastStartup) =>
        \A n \in rcLingering : n \in rcRunDel /\ n \notin rcFileList

\* a full-copy task whose object is in the bucket and not yet retired, before
\* the receiver runs
C7_Uploaded ==
    /\ rcRuns = 0
    /\ bucket[TaskA] = RegFile(WindowData(TaskA))
    /\ store[TaskA] \in {Uploading, Uploaded}

\* the file is at its target, the record is downloaded and the object is
\* gone, by the work of the first run
C7_Done ==
    /\ rcRuns = 1
    /\ dest[TaskA] = Placed(TaskA)
    /\ store[TaskA] = Downloaded
    /\ ~bucket[TaskA].exists

\* C7 as stated: for a full-copy task whose object has been uploaded, a
\* receiver run without failures and cancellation eventually places the
\* file, records it as downloaded and deletes the object.
C7_EventuallyRetired == C7_Uploaded ~> C7_Done

\* C7 amended: the same, for a receiver that uses the task store and has
\* bucket deletes enabled.
C7_EventuallyRetiredWithStore ==
    (C7_Uploaded /\ rcUseDB /\ rcDeleteRemote) ~> C7_Done

C7_Witness ==
    /\ C7_Done
    /\ rcUseDB /\ rcDeleteRemote
    /\ rcPlaced[TaskA] = 1
    /\ rcDeleted[TaskA] = 1
    /\ rcEnd = "returned"

----------------------------------------------------------------------------
(* Claims about the task store and the sender *)

\* C8: a record that is downloaded is never changed to another status, by
\* the receiver or by a sender upsert.
C8_DownloadedIsFinal ==
    [][\A n \in Names : store[n] = Downloaded => store'[n] = Downloaded]_vars

\* C9: with the task store in use, every task of the plan has been written
\* uploading when the uploader is started; a record is written uploaded only
\* after the uploader reported success, so none is after a failed upload.
C9_UploadingBeforeUploadedAfter ==
    /\ (sdUseDB /\ sdUp # "off") => sdPlan \subseteq sdWroteUploading
    /\ sdWroteUploaded # {} => sdUp = "ok"

C9_Witness ==
    /\ sdUseDB
    /\ sdUp = "ok"
    /\ sdPlan = Names
    /\ sdWroteUploading = Names
    /\ TaskB \in sdWroteUploaded

\* C10: no record is written uploaded once the context has been cancelled
\* by a shutdown signal.
C10_NoUploadedAfterCancel == sdLate = {}

----------------------------------------------------------------------------
(* Claims about the planner, checked under SpecPlan *)

PlanReturned == plOut.done /\ ~plOut.panic

\* both profiles give the shard's size, and the source profile's size is
\* the size of the source file
PlanSized ==
    /\ plOut.done
    /\ plIn.exists
    /\ ~plIn.src.size.nil /\ ~plIn.dst.size.nil
    /\ plIn.src.file.exists
    /\ plIn.src.size.v = FileSize(plIn.src.file)

\* digest(src, 0, dst.size) was computed and equals dst.digest
PrefixMatches ==
    /\ ~plIn.dst.digest.nil
    /\ SampleMD5Path(plIn.src.file, 0, plIn.dst.size.v).err = ""
    /\ SampleMD5Path(plIn.src.file, 0, plIn.dst.size.v).digest
          = plIn.dst.digest.v

\* digest(src, 0, dst.size) was computed and differs from dst.digest
PrefixDiffers ==
    /\ ~plIn.dst.digest.nil
    /\ SampleMD5Path(plIn.src.file, 0, plIn.dst.size.v).err = ""
    /\ SampleMD5Path(plIn.src.file, 0, plIn.dst.size.v).digest
          # plIn.dst.digest.v

FullTask ==
    [name |-> Base(plIn.src.path), offset |-> 0, size |-> plIn.src.size.v,
     sourceDigest |-> plIn.src.digest, targetDigest |-> NilDigest]

AppendTask ==
    [name |-> VName(Base(plIn.src.path), plIn.dst.size.v),
     offset |-> plIn.dst.size.v,
     size |-> plIn.src.size.v - plIn.dst.size.v,
     sourceDigest |-> plIn.src.digest, targetDigest |-> plIn.dst.digest]

\* a task of the plan stored under a name other than the shard's base name:
\* the one addPartialCopyTask makes
IsAppendTask(t) == t.name # Base(plIn.src.path)

\* C14: for a non-empty shard whose source and destination sizes are equal
\* and whose prefix digest check passes, the planner returns a plan without
\* any task.
C14_EqualShardNoTask ==
    (/\ PlanSized
     /\ ~plIn.skip
     /\ plIn.src.size.v > 0
     /\ plIn.src.size.v = plIn.dst.size.v
     /\ PrefixMatches)
    => /\ ~plOut.panic
       /\ plOut.tasks = {}

\* C15: every append task of a plan returned for a non-empty destination
\* shard has src.size > dst.size, hence a size field > 0, and was emitted
\* only when the prefix digest matched or the skip flag was set.
C15_AppendTaskSound ==
    (PlanReturned /\ PlanSized /\ plIn.dst.size.v > 0) =>
        \A t \in plOut.tasks :
            IsAppendTask(t) =>
                /\ plIn.src.size.v > plIn.dst.size.v
                /\ t.size > 0
                /\ plIn.skip \/ PrefixMatches

\* C16: when dst.size <= src.size, the skip flag is false and the prefix
\* digest equals dst.digest, the plan holds the append task with offset
\* dst.size, size src.size - dst.size and the ".offset.<dst.size>" name.
C16_PrefixMatchAppends ==
    (/\ PlanSized
     /\ ~plIn.skip
     /\ plIn.dst.size.v <= plIn.src.size.v
     /\ PrefixMatches)
    => /\ ~plOut.panic
       /\ AppendTask \in plOut.tasks
       /\ AppendTask.offset = plIn.dst.size.v
       /\ AppendTask.name
             = Base(plIn.src.path) \o Marker \o Decimal(plIn.dst.size.v)

C16_Witness ==
    /\ PlanSized /\ ~plIn.skip /\ PrefixMatches
    /\ plIn.dst.size.v > 0
    /\ plIn.dst.size.v < plIn.src.size.v
    /\ plOut.tasks = {AppendTask}

\* C17: when the skip flag is false and the sampled digest of the source's
\* first dst.size bytes differs from dst.digest, the plan holds the
\* full-copy task of the shard and no append task.
C17_PrefixMismatchFullCopy ==
    (/\ PlanSized
     /\ ~plIn.skip
     /\ plIn.dst.size.v <= plIn.src.size.v
     /\ PrefixDiffers)
    => /\ ~plOut.panic
       /\ plOut.tasks = {FullTask}
       /\ \A t \in plOut.tasks : ~IsAppendTask(t)

C17_Witness ==
    /\ PlanSized /\ ~plIn.skip /\ PrefixDiffers
    /\ plIn.dst.size.v > 0
    /\ plIn.dst.size.v < plIn.src.size.v
    /\ plOut.tasks = {FullTask}

\* C18: when the destination shard is larger than its source shard, the plan
\* holds the full-copy task of the shard and no append task.
C18_DstLargerFullCopy ==
    (/\ PlanSized
     /\ plIn.dst.size.v > plIn.src.size.v)
    => /\ ~plOut.panic
       /\ plOut.tasks = {FullTask}
       /\ \A t \in plOut.tasks : ~IsAppendTask(t)

C18_Witness ==
    /\ PlanSized
    /\ plIn.dst.size.v > plIn.src.size.v
    /\ plIn.src.size.v > 0
    /\ plOut.tasks = {FullTask}

----------------------------------------------------------------------------
(* Claims about the offset view, checked under SpecVfs *)

\* the size table of the view: the size reported for offset O, size S and a
\* source file of fsize bytes
TableSize(O, S, fsize) ==
    LET rest == IF fsize - O > 0 THEN fsize - O ELSE 0
    IN  IF O = 0 /\ S = 0 THEN fsize
        ELSE IF O = 0 THEN Min(fsize, S)
        ELSE IF S = 0 THEN rest
        ELSE Min(rest, S)

\* the last operation was on the configured name, the source file exists
\* and no I/O operation failed
VfsCallClean(op) ==
    /\ vfLast.op = op
    /\ vfLast.path = "/f"
    /\ vfLast.fault = "none"
    /\ vfFile.exists

\* C19: for every configured (offset, size) and every source file size,
\* getattr succeeds and reports the size of the table.
C19_GetattrSize ==
    VfsCallClean("getattr") =>
        /\ vfLast.errno = ""
        /\ vfLast.size = TableSize(vfCfg.offset, vfCfg.size, FileSize(vfFile))

C19_Witness ==
    /\ VfsCallClean("getattr")
    /\ vfCfg.offset > 0
    /\ vfCfg.size > 0
    /\ vfCfg.offset < FileSize(vfFile)
    /\ vfLast.size = 1
    /\ vfCfg.size > 1

\* C20: a read at a relative offset below the reported size returns the
\* source bytes from O + rel_off up to O + rel_off + min(L, reported size -
\* rel_off); a read at or beyond the reported size returns 0 bytes and no
\* error.
C20_ReadWindow ==
    VfsCallClean("read") =>
        LET reported == TableSize(vfCfg.offset, vfCfg.size, FileSize(vfFile))
            from == vfCfg.offset + vfLast.ofst
            count == Min(vfLast.len, reported - vfLast.ofst)
        IN  /\ vfLast.errno = ""
            /\ vfLast.size = Len(vfLast.data)
            /\ IF vfLast.ofst < reported
               THEN vfLast.data = SubSeq(vfFile.data, from + 1, from + count)
               ELSE vfLast.data = <<>>

C20_Witness ==
    /\ VfsCallClean("read")
    /\ vfCfg.offset > 0
    /\ vfCfg.size > 0
    /\ vfCfg.offset + vfCfg.size < FileSize(vfFile)
    /\ vfLast.ofst > 0
    /\ vfLast.len > vfCfg.size - vfLast.ofst
    /\ vfLast.size = vfCfg.size - vfLast.ofst
    /\ vfLast.data = <<1>>
    /\ \E i \in DOMAIN vfFile.data : vfFile.data[i] = 0

\* C21: on a read-only mount no call creates, modifies, resizes or
\* re-timestamps the source file, and every write, truncate and time-stamp
\* update on a configured name is refused with EACCES.
C21_ReadOnlyMount ==
    [][vfCfg.readOnly =>
          /\ vfFile' = vfFile
          /\ vfStamp' = vfStamp
          /\ (/\ vfLast'.op \in {"write", "truncate", "utimens"}
              /\ vfLast'.path = "/f") => vfLast'.errno = "EACCES"]_vars

C21_Witness ==
    /\ vfCfg.readOnly
    /\ vfLast.op = "write"
    /\ vfLast.path = "/f"
    /\ vfLast.len > 0
    /\ vfLast.errno = "EACCES"
    /\ ~vfFile.exists

----------------------------------------------------------------------------
(* Claims about the sampled digest, checked under SpecDigest *)

DigestReturned == dgOut.err = ""

\* the bytes of data in [skip, skip+size)
Window(data, skip, size) == SubSeq(data, skip + 1, skip + size)

\* every file of at least skip+size bytes with the same bytes in
\* [skip, skip+size) has the same digest for (skip, size)
SameWindowSameDigest ==
    \A g \in DigestFiles :
        (/\ Len(g) >= dgIn.skip + dgIn.size
         /\ Window(g, dgIn.skip, dgIn.size)
                = Window(dgIn.data, dgIn.skip, dgIn.size))
        => SampleMD5(g, dgIn.skip, dgIn.size).digest = dgOut.digest

\* the positions fed to the hash: the digest of the file whose byte at
\* position i is i
FedPositions(fsize, skip, size) ==
    LET d == SampleMD5([i \in 1..fsize |-> i], skip, size).digest
    IN  {d[i] : i \in 2..Len(d)}

\* the positions fed lie in the window and are the same for a longer file
PositionsInWindow ==
    LET fed == FedPositions(Len(dgIn.data), dgIn.skip, dgIn.size)
    IN  /\ fed \subseteq (dgIn.skip + 1)..(dgIn.skip + dgIn.size)
        /\ fed = FedPositions(Len(dgIn.data) + 1, dgIn.skip, dgIn.size)

\* C22 as stated: for every size k >= 0 the digest of (skip, k) depends only
\* on the bytes of the window.
C22_WindowOnlyAnySize ==
    (DigestReturned /\ dgIn.size >= 0) =>
        (SameWindowSameDigest /\ PositionsInWindow)

\* C22: for every size k > 0, two files with the same bytes in
\* [skip, skip+k) have the same digest for (skip, k); the positions fed to
\* the hash lie in the window and do not depend on the file's total size.
C22_WindowOnly ==
    (DigestReturned /\ dgIn.size > 0) =>
        (SameWindowSameDigest /\ PositionsInWindow)

C22_Witness ==
    /\ DigestReturned
    /\ dgIn.size = SmallFileLimit + 1
    /\ dgIn.skip = 1
    /\ Len(dgIn.data) > dgIn.skip + dgIn.size
    /\ \E g \in DigestFiles :
          /\ g # dgIn.data
          /\ Len(g) = dgIn.skip + dgIn.size
          /\ Window(g, dgIn.skip, dgIn.size)
                = Window(dgIn.data, dgIn.skip, dgIn.size)

----------------------------------------------------------------------------
(* Claims about the receiver's passes *)

\* C23: a task record is downloaded, and a bucket delete is issued for a
\* name, only after MoveFile has returned success for that name; a MoveFile
\* that failed is followed neither by the record update nor by the delete.
C23_DownloadedOnlyAfterMove ==
    \A n \in Names :
        /\ (store[n] = Downloaded \/ rcDelIssued[n] > 0) => rcPlaced[n] > 0
        /\ n \in rcMoveFailed => rcWork[n] \notin {"update", "delete"}

C23_Witness ==
    /\ rcUseDB
    /\ rcDeleteRemote
    /\ \E n \in Names, m \in Names :
          /\ n \in rcMoveFailed
          /\ rcPlaced[n] = 0
          /\ store[n] = Uploaded
          /\ bucket[n].exists
          /\ store[m] = Downloaded
          /\ rcPlaced[m] = 1

----------------------------------------------------------------------------
(* Claims about the destination lock *)

\* the outcome of the two calls run one after the other, p first
OneAfterTheOther(p, q) ==
    LET a == lkCall[p]
        b == lkCall[q]
        r1 == MoveFile(a.src0, lkDst0, a.mode, a.exp, a.expSize, a.fault, 0)
        r2 == MoveFile(b.src0, r1.dst, b.mode, b.exp, b.expSize, b.fault, 0)
    IN  /\ lkDst = r2.dst
        /\ a.err = r1.err /\ a.src = r1.src
        /\ b.err = r2.err /\ b.src = r2.src

\* C24: a MoveFile call is at its open-for-writing, size check, copy, digest
\* check, rollback or source removal only while it holds the exclusive lock
\* on the destination, so two concurrent calls on one destination are never
\* both at these statements, and when both have returned the destination,
\* the sources and the errors are those of the two calls run one after the
\* other.
C24_ExclusiveWhileWriting ==
    /\ \A p \in Callers : lkCall[p].pc \in UnderLock => lkHolder = p
    /\ \A p \in Callers, q \in Callers :
          (p # q /\ lkCall[p].pc \in UnderLock) => lkCall[q].pc \notin UnderLock
    /\ (\A p \in Callers : lkCall[p].pc = "returned") =>
          /\ lkHolder = 0
          /\ OneAfterTheOther(1, 2) \/ OneAfterTheOther(2, 1)

C24_Witness ==
    /\ lkCall[1].pc = "copy"
    /\ lkCall[2].pc = "flock"
    /\ lkCall[1].mode = CopyModeAppend
    /\ lkCall[2].mode = CopyModeOverwrite
    /\ lkHolder = 1
    /\ lkDst = RegFile(<<0>>)

----------------------------------------------------------------------------
(* Claims about what a pass submits and what the downloader is given *)

\* a cache file a pass may submit: the plan has its task and its size is the
\* task's size
Eligible(n) ==
    /\ n \in rcPlan
    /\ cache[n].exists
    /\ FileSize(cache[n]) = TaskSize(n)

\* C25: the scan of a reconcile pass submits a cache file only if the plan
\* has a task under its name and its size equals the task's size, and a step
\* of the pass changes a cache file or a destination only of a name that was
\* submitted and dispatched; a cache file of any other size is left as it is.
C25_OnlyPlannedRightSize ==
    [][/\ (rcPc = "scan" /\ rcPc' = "pass") =>
              \A n \in Names : rcWork'[n] # "idle" => Eligible(n)
       /\ \A n \in Names :
              (/\ rcWork' # rcWork
               /\ (cache'[n] # cache[n] \/ dest'[n] # dest[n]))
                  => rcWork[n] \in InMoveFile /\ Eligible(n)]_vars

C25_Witness ==
    /\ rcPc = "pass"
    /\ rcPass = "loop"
    /\ rcDl = "running"
    /\ \E n \in Names, m \in Names :
          /\ n \in rcPlan
          /\ cache[n].exists
          /\ FileSize(cache[n]) # TaskSize(n)
          /\ rcWork[n] = "idle"
          /\ m \in rcPlan
          /\ rcWork[m] = "update"
          /\ ~cache[m].exists

\* C26: once the download list is built, a listed object is on it if and
\* only if its name is not in the completed set, the plan has a task under
\* that name and the listed size equals the task's size; nothing unlisted is
\* on it.
C26_DownloadListExact ==
    rcDl # "off" =>
        \A n \in AllNames :
            n \in rcFileList <=>
                /\ rcExisting[n] >= 0
                /\ n \notin rcIgnored
                /\ n \in rcPlan
                /\ rcExisting[n] = TaskSize(n)

C26_Witness ==
    /\ rcDl = "running"
    /\ rcExisting[Foreign] >= 0
    /\ \E n \in Names, m \in Names :
          /\ rcExisting[n] >= 0
          /\ n \in rcPlan
          /\ n \in rcIgnored
          /\ n \notin rcFileList
          /\ m \in rcFileList

C28_CancelStopsDispatch ==
    [][rcCancelled =>
           /\ \A n \in Names :
                  /\ rcWork'[n] = "queued" => rcWork[n] = "queued"
                  /\ rcWork'[n] = "moving" => rcWork[n] = "moving"
                  /\ rcWork[n] \in InMoveFile \cup {"update", "delete"}
                         => rcWork'[n] \in InMoveFile
                                             \cup {"update", "delete", "idle"}
           /\ (rcPc = "pass" /\ rcPc' # "pass") => rcWork = AllIdle]_vars

\* the file loop has observed the done context and left a file without a
\* goroutine while the goroutine of another file is still at work
C28_Witness ==
    /\ rcPc = "pass"
    /\ rcCancelled
    /\ rcLocal.broke
    /\ \E n \in Names, m \in Names :
          /\ rcWork[n] \in InMoveFile \cup {"update", "delete"}
          /\ rcWork[m] = "idle"
          /\ Eligible(m)

\* C30: a MoveFile that fails for one file leaves its cache file, the other
\* goroutines of the pass and the main goroutine as they are; the initial
\* pass and a loop pass with failed files do not end the run; a failed file
\* is still in the cache, and the next scan that finds it with its task's
\* size submits it again (a scan that fails submits nothing, and a scan
\* leaves out a file it cannot access).
C30_FailureIsLocal ==
    /\ [](\A n \in rcMoveFailed : cache[n].exists)
    /\ [][\A n \in Names :
              (n \notin rcMoveFailed /\ n \in rcMoveFailed') =>
                  /\ cache'[n] = cache[n]
                  /\ rcPc' = rcPc
                  /\ \A m \in Names \ {n} : rcWork'[m] = rcWork[m]]_vars
    /\ [][(/\ rcPc = "pass"
           /\ rcLocal.errs
           /\ rcPass \in {"init", "loop"}
           /\ rcPc' # "pass"
           /\ rcEnd' # "crashed")
              => rcPc' \in {"ignored", "scan", "sleep"}]_vars
    /\ [][(rcPc = "scan" /\ rcPc' = "pass" /\ ~rcLocal'.scanErr) =>
              \A n \in rcMoveFailed \ rcLocal'.skipped :
                  Eligible(n) => rcWork'[n] = "found"]_vars

C30_Witness ==
    /\ rcPc = "pass"
    /\ rcPass \in {"loop", "final"}
    /\ \E n \in Names, m \in Names :
          /\ n \in rcMoveFailed
          /\ rcWork[n] = "queued"
          /\ rcPlaced[n] = 0
          /\ rcPlaced[m] = 1
          /\ rcRuns = 1

----------------------------------------------------------------------------
(* Claims about the worker pool of a pass *)

\* the goroutines that are inside onFileTransferred
InProgress == {i \in 1..PoolFiles : pwStage[i] = "running"}

\* C31: at no time during a reconcile pass are more than maxConcurrency (10)
\* goroutines inside onFileTransferred, and the tokens in the semaphore are
\* exactly those of the goroutines inside it.
C31_AtMostTenInProgress ==
    /\ Cardinality(InProgress) <= maxConcurrency
    /\ pwSem = Cardinality(InProgress)

C31_Witness ==
    /\ Cardinality(InProgress) = maxConcurrency
    /\ \E i \in 1..PoolFiles : pwStage[i] = "waiting"

----------------------------------------------------------------------------
(* Claims about the end of the sender *)

\* C32: when the sender with the task store in use has ended after the
\* uploader reported success and without a cancellation, every task of the
\* plan, full-copy tasks included, has been written with status uploaded.
C32_AllMarkedUploaded ==
    (/\ sdPc = "stopped"
     /\ sdUseDB
     /\ sdUp = "ok"
     /\ ~sdCancelled) => sdPlan \subseteq sdWroteUploaded

\* C33: the sender process ends only by runSend returning, and when it has
\* ended after its task goroutine was started the upload worker is not
\* running any more.
C33_ReturnsAfterUploader ==
    (sdPc = "stopped" /\ sdPlan # {}) => (sdEnd # "panic" /\ sdUp # "running")

----------------------------------------------------------------------------
(* Claims about the planner's skip flag, digests and failures, checked under
   SpecPlan *)

\* both profiles give the shard's size and the destination shard is not
\* larger than the source shard
PlanComparable ==
    /\ plOut.done
    /\ plIn.exists
    /\ ~plIn.src.size.nil /\ ~plIn.dst.size.nil
    /\ plIn.dst.size.v <= plIn.src.size.v

\* C34: when skip_partial_digest_check is true and dst.size <= src.size, the
\* plan holds the full-copy task of the shard and nothing else.
C34_SkipEmitsOnlyFullCopy ==
    (/\ PlanComparable
     /\ plIn.skip
     /\ plIn.src.file.exists
     /\ ~plIn.src.digest.nil)
    => /\ ~plOut.panic
       /\ plOut.tasks = {FullTask}

\* C35: when the skip flag is false and the source file is missing while the
\* prefix digest is computed, the planner returns a plan that holds the
\* full-copy task of the shard and no append task.
C35_MissingSourceFullCopy ==
    (/\ PlanComparable
     /\ ~plIn.skip
     /\ ~plIn.src.file.exists
     /\ ~plIn.src.digest.nil
     /\ ~plIn.dst.digest.nil)
    => /\ ~plOut.panic
       /\ plOut.tasks = {FullTask}

\* C36: every task of a returned plan carries a source digest, and when the
\* profile gives none it is the digest computed over the whole source file.
C36_TasksCarrySourceDigest ==
    PlanReturned =>
        \A t \in plOut.tasks :
            /\ ~t.sourceDigest.nil
            /\ plIn.src.digest.nil =>
                  t.sourceDigest.v = SampleMD5Path(plIn.src.file, 0, 0).digest

\* a shard without a size in either profile
SizeMissing == plIn.src.size.nil \/ (plIn.exists /\ plIn.dst.size.nil)

\* a digest has to be computed from a file that cannot be opened: the
\* source digest the profile does not give, the prefix digest, or the
\* destination digest of an append task planned under the skip flag
DigestIOError ==
    \/ plIn.src.digest.nil /\ ~plIn.src.file.exists
    \/ PlanComparable /\ ~plIn.skip /\ ~plIn.src.file.exists
    \/ /\ PlanComparable /\ plIn.skip
       /\ plIn.src.digest.nil /\ plIn.dst.digest.nil
       /\ ~plIn.dst.file.exists

\* C37: when a shard has no size in either profile, or a digest computation
\* hits an I/O error, the planner panics and returns no plan; a call that
\* panics never returns any of the tasks it had put in the plan.
C37_FatalMeansNoPlan ==
    /\ (plOut.done /\ (SizeMissing \/ DigestIOError)) =>
           (plOut.panic /\ plOut.tasks = {})
    /\ plOut.panic => plOut.tasks = {}

C37_Witness ==
    /\ PlanComparable
    /\ plIn.skip
    /\ plIn.src.file.exists
    /\ plIn.src.digest.nil /\ plIn.dst.digest.nil
    /\ ~plIn.dst.file.exists
    /\ plOut.panic
    /\ plOut.tasks = {}

----------------------------------------------------------------------------
(* Claims about passes, finished names and copy modes *)

\* C38: a pass is entered, and its scan runs, only when no goroutine of an
\* earlier pass is left; within a pass a file is handed to a goroutine only
\* from the list of the scan, and once its goroutine has run it is not
\* handed out again before the next scan.
C38_OneOperationPerFile ==
    /\ [](rcPc # "pass" => rcWork = AllIdle)
    /\ [][\A n \in Names :
              /\ (rcWork'[n] = "found" /\ rcWork[n] # "found") =>
                     (rcPc = "scan" /\ rcWork = AllIdle)
              /\ (rcWork'[n] = "queued" /\ rcWork[n] # "queued") =>
                     rcWork[n] = "found"
              /\ (rcWork'[n] = "moving" /\ rcWork[n] # "moving") =>
                     rcWork[n] = "queued"
              /\ (rcWork[n] \in InMoveFile \cup {"update", "delete"}) =>
                     rcWork'[n] \in InMoveFile \cup {"update", "delete",
                                                     "idle"}]_vars

C38_Witness ==
    /\ rcPc = "pass"
    /\ rcPass = "final"
    /\ \E n \in Names, m \in Names :
          /\ rcWork[n] = "queued"
          /\ rcPlaced[m] = 1
          /\ rcWork[m] = "idle"
          /\ m \notin rcPending

\* C39 as stated: a name whose record was downloaded when the run started is
\* not in the plan of the run, is never handed to a goroutine, is not on the
\* download list and is not downloaded again, even though its object is
\* still listed in the bucket.
C39_FinishedNamesLeftAlone ==
    [][\A n \in Names :
          (rcPc # "stopped" /\ n \in rcLingering) =>
              /\ n \notin rcPlan
              /\ rcWork'[n] = "idle"
              /\ rcPlaced'[n] = rcPlaced[n]
              /\ cache'[n] = cache[n]
              /\ dest'[n] = dest[n]
              /\ n \notin rcFileList'
              /\ n \notin rcDlTodo']_vars

\* the cache directories a receiver is run with: a plain one, one whose
\* name holds the marker and one that ends in the marker's first seven
\* characters
CacheDirs ==
    {<<"c">>,
     <<"c">> \o Marker \o <<"d">>,
     <<"c", ".", "o", "f", "f", "s", "e", "t">>}

\* the shard's base name ends in ".offset", so that the marker appended to
\* it is preceded by another one that shares its first character
EndsInOffset(base) == HasSuffix(base, SubSeq(Marker, 1, Len(Marker) - 1))

\* neither the cache directory nor the shard's base name holds ".offset.",
\* and the base name does not end in ".offset"
MarkerFree(dir) ==
    /\ ~Contains(dir, Marker)
    /\ ~Contains(Base(plIn.src.path), Marker)
    /\ ~EndsInOffset(Base(plIn.src.path))

====
